---- MODULE Spec2Model ----
(***************************************************************************)
(* Verification model of the mentraflow backend:                           *)
(*   - the SM-2 spaced-repetition scheduler and the review-recording       *)
(*     operation (app/services/flashcard_service.py)                       *)
(*   - the ingest endpoint's in-flight check (api/v1/endpoints/documents)  *)
(*   - the ingestion pipeline and its optional-content stage               *)
(*     (app/agents/graphs/ingestion_graph.py)                              *)
(***************************************************************************)
EXTENDS Integers, Sequences, FiniteSets, TLC

\* absent values: no row, no timestamp, NULL numeric columns
NoState == [absent |-> TRUE]
NoTime == -1
NoInt == -1
NoFloat == <<>>
NoError == "none"

(***************************************************************************)
(* Bounds of the model.                                                    *)
(***************************************************************************)
MaxReviews == 4
MaxTicks == 2
SeedFailures == 12

(***************************************************************************)
(* IEEE-754 doubles.  ease_factor is a Python float (a Float column), so   *)
(* the scheduler's arithmetic is double arithmetic.  A double x near a     *)
(* two-decimal value is written <<k, d>>, meaning exactly                  *)
(*        x = k/100 + d * u,     u = 2^-56 / 25                            *)
(* (k hundredths plus d units of u).  In these units 2^-52, the spacing of *)
(* doubles in [1,2), is 400 and the spacing in [2,4) is 800.  k * 2^54 is  *)
(* k/100 in units of u; only its residue modulo 1600 is needed to round.   *)
(***************************************************************************)
Pow54Mod1600 == 384

\* residue of the exact value <<k, d>> modulo a spacing m (m divides 1600)
Residue(k, d, m) == (k * Pow54Mod1600 + d) % m

\* round-to-nearest, ties-to-even, of the exact value <<k, d>> to spacing m
RoundToSpacing(k, d, m) ==
    LET r == Residue(k, d, m)
    IN  IF 2 * r < m THEN <<k, d - r>>
        ELSE IF 2 * r > m THEN <<k, d + (m - r)>>
        ELSE IF Residue(k, d - r, 2 * m) = 0 THEN <<k, d - r>>
        ELSE <<k, d + (m - r)>>

\* spacing of doubles around the exact value <<k, d>>, for values in [1, 4)
Spacing(k, d) == IF k > 200 \/ (k = 200 /\ d >= 0) THEN 800 ELSE 400

FloatAdd(a, b) ==
    LET k == a[1] + b[1]
        d == a[2] + b[2]
    IN  RoundToSpacing(k, d, Spacing(k, d))

FloatSub(a, b) ==
    LET k == a[1] - b[1]
        d == a[2] - b[2]
    IN  RoundToSpacing(k, d, Spacing(k, d))

FloatLess(a, b) == a[1] < b[1] \/ (a[1] = b[1] /\ a[2] < b[2])

\* Python's min(a, b) and max(a, b): the first argument unless the second wins
FloatMin(a, b) == IF FloatLess(b, a) THEN b ELSE a
FloatMax(a, b) == IF FloatLess(a, b) THEN b ELSE a

\* the largest power of two strictly below q (q >= 2)
RECURSIVE PowerOfTwoBelow(_, _)
PowerOfTwoBelow(q, h) == IF 2 * h < q THEN PowerOfTwoBelow(q, 2 * h) ELSE h

\* int(interval * ease): the double product, rounded to nearest, truncated.
\* The exact product is (interval*k)/100 + interval*d*u.  When interval*k is
\* not a multiple of 100 the product is far from an integer and truncation
\* gives the quotient.  When it is a multiple of 100, the product sits within
\* interval*|d| units of the integer q: at or above q when d >= 0; below q
\* when d < 0, in which case rounding returns q only if the distance is at
\* most half the spacing of doubles just below q (25 * 2^(e+3) units for a
\* product in [2^e, 2^(e+1))), and q - 1 otherwise.
IntOfProduct(interval, x) ==
    LET q == (interval * x[1]) \div 100
        rem == (interval * x[1]) % 100
        half == IF q <= 1 THEN 100 ELSE 200 * PowerOfTwoBelow(q, 1)
    IN  IF rem # 0 THEN q
        ELSE IF x[2] >= 0 \/ interval = 0 THEN q
        ELSE IF interval * (0 - x[2]) <= half THEN q
        ELSE q - 1

\* int(n * 1.2) for an integer n >= 0: 1.2 is the double 1.2 - 80u, and
\* n * 80 units never exceeds half a spacing of the product, so the rounded
\* product truncates to the exact quotient.
IntTimesOnePointTwo(n) == (n * 12) \div 10

(***************************************************************************)
(* _calculate_srs_update                                                   *)
(***************************************************************************)
INITIAL_EASE == <<250, 0>>
MIN_EASE == <<130, 80>>
EASE_CHANGE == <<10, 10>>
MAX_EASE == <<250, 0>>
\* EASE_CHANGE * 1.5: the exact product <<15, 15>> rounded in [1/8, 1/4),
\* where doubles are 50 units apart
EaseChangePerfect == RoundToSpacing(15, 15, 50)

\* Python's "x or default" on a float / an int
FloatOr(x, default) == IF x = NoFloat \/ x = <<0, 0>> THEN default ELSE x
IntOr(x, default) == IF x = NoInt \/ x = 0 THEN default ELSE x

\* a card with no SRS row (the mutant counts grade 2, "Good" in the
\* docstring, as a successful recall)
NewCardUpdateGoodIsTwo(rating) ==
    IF rating >= 2
    THEN [interval_days |-> 1, ease_factor |-> INITIAL_EASE,
          repetitions |-> 1, lapses |-> 0]
    ELSE [interval_days |-> 0, ease_factor |-> INITIAL_EASE,
          repetitions |-> 0, lapses |-> 1]

NewCardUpdate(rating) ==
    IF rating >= 3
    THEN [interval_days |-> 1, ease_factor |-> INITIAL_EASE,
          repetitions |-> 1, lapses |-> 0]
    ELSE [interval_days |-> 0, ease_factor |-> INITIAL_EASE,
          repetitions |-> 0, lapses |-> 1]

\* the interval before the grade-4 boost
BaseIntervalAlwaysProduct(interval, ease, repetitions) ==
    IF repetitions = 0 THEN 1 ELSE IntOfProduct(interval, ease)

BaseInterval(interval, ease, repetitions) ==
    IF repetitions = 0 THEN 1
    ELSE IF repetitions = 1 THEN 6
    ELSE IntOfProduct(interval, ease)

\* successful recall of an existing card (mutants: the boost of a perfect
\* review given to every success; the lapse count cleared by a success)
SuccessUpdateBoostAll(rating, ease, interval, repetitions, lapses) ==
    [interval_days |-> IntTimesOnePointTwo(BaseInterval(interval, ease, repetitions)),
     ease_factor |-> FloatMin(FloatAdd(ease, EaseChangePerfect), MAX_EASE),
     repetitions |-> repetitions + 1,
     lapses |-> lapses]

SuccessUpdateClearLapses(rating, ease, interval, repetitions, lapses) ==
    [interval_days |-> IF rating = 4
                       THEN IntTimesOnePointTwo(BaseInterval(interval, ease, repetitions))
                       ELSE BaseInterval(interval, ease, repetitions),
     ease_factor |-> IF rating = 4
                     THEN FloatMin(FloatAdd(ease, EaseChangePerfect), MAX_EASE)
                     ELSE FloatMin(FloatAdd(ease, EASE_CHANGE), MAX_EASE),
     repetitions |-> repetitions + 1,
     lapses |-> 0]

SuccessUpdate(rating, ease, interval, repetitions, lapses) ==
    [interval_days |-> IF rating = 4
                       THEN IntTimesOnePointTwo(BaseInterval(interval, ease, repetitions))
                       ELSE BaseInterval(interval, ease, repetitions),
     ease_factor |-> IF rating = 4
                     THEN FloatMin(FloatAdd(ease, EaseChangePerfect), MAX_EASE)
                     ELSE FloatMin(FloatAdd(ease, EASE_CHANGE), MAX_EASE),
     repetitions |-> repetitions + 1,
     lapses |-> lapses]

\* failed recall of an existing card (mutants: the ease not floored; the
\* streak kept)
FailureUpdateNoFloor(ease, lapses) ==
    [interval_days |-> 0,
     ease_factor |-> FloatSub(ease, EASE_CHANGE),
     repetitions |-> 0,
     lapses |-> lapses + 1]

FailureUpdateLowerTwice(ease, lapses) ==
    [interval_days |-> 0,
     ease_factor |-> FloatMax(FloatSub(FloatSub(ease, EASE_CHANGE), EASE_CHANGE), MIN_EASE),
     repetitions |-> 0,
     lapses |-> lapses + 1]

FailureUpdate(ease, lapses) ==
    [interval_days |-> 0,
     ease_factor |-> FloatMax(FloatSub(ease, EASE_CHANGE), MIN_EASE),
     repetitions |-> 0,
     lapses |-> lapses + 1]

CalculateSrsUpdate(rating, current_state) ==
    IF current_state = NoState
    THEN NewCardUpdate(rating)
    ELSE
      LET ease == FloatOr(current_state.ease_factor, INITIAL_EASE)
          interval == IntOr(current_state.interval_days, 0)
          repetitions == IntOr(current_state.repetitions, 0)
          lapses == IntOr(current_state.lapses, 0)
      IN  IF rating >= 3
          THEN SuccessUpdate(rating, ease, interval, repetitions, lapses)
          ELSE FailureUpdate(ease, lapses)

(***************************************************************************)
(* State.                                                                  *)
(***************************************************************************)
VARIABLES
    \* the review-recording operation, one (flashcard, user) pair
    flashcardExists,   \* the flashcard row exists
    srs_state,         \* the FlashcardSRSState row of the pair, or NoState
    reviews,           \* the number of FlashcardReview rows of the pair
    clock,             \* datetime.now(), in seconds
    ticks,             \* how many times the clock was advanced
    budget,            \* how many more reviews this behaviour may record
    lastCall,          \* the last record_review call: its inputs and its outcome
    \* one application of the scheduler to a given row
    fnGrade, fnPrev, fnNow, fnOut,
    \* the ingest endpoint and the agent runs it queues
    documents,         \* the status of each Document row, or NoDocument
    agent_runs,        \* the AgentRun rows, in insertion order
    requests,          \* the ingest requests in flight, one per slot
    \* one run of the ingestion pipeline
    node,              \* the graph node about to run, or END / RAISED
    ingestion_state,   \* the IngestionState passed from node to node
    steps,             \* the (step, status) pairs handed to _log_step
    document_row,      \* the Document row of the run's document
    preferences,       \* the user's auto_*_after_ingest flags
    raw_text,          \* the request carries raw_text
    sub_pc,            \* where each optional sub-generator stands
    sub_faulted,       \* a collaborator of the sub-generator itself failed
    kg_edge_index,     \* the edge upsert_edges is about to look up
    session_new,       \* objects added to the shared session, not committed
    session_expired,   \* the KG concepts loaded in the session are expired
    db_rows,           \* what the optional stage has committed
    \* one AgentRun row and the task that executes it
    run_row,           \* the committed AgentRun row, or NoState
    run_pc,            \* where the executing task stands
    run_sync,          \* the run is executed by BaseAgent.run, not by a task
    run_logged,        \* how many step reports _log_step took without a warning
    \* one run of the flashcard or of the KG extraction agent
    graph,             \* which agent's graph runs
    graph_node,        \* the graph node about to run, END, or RETURNED
    graph_state,       \* the state dictionary handed from node to node
    graph_failure,     \* the message of the collaborator failure, if any
    agent_result,      \* what _run_internal returned or raised
    \* one run of the study chat agent
    chat_node,         \* the graph node about to run, END, or RETURNED
    chat_state,        \* the state dictionary handed from node to node
    chat_failure,      \* the exception a collaborator raised, if any
    chat_visited,      \* the nodes that have run
    chat_output,       \* the StudyChatAgentOutput returned
    \* one call of ChunkingService._recursive_chunk
    text,              \* the text to chunk, a sequence of characters
    chunk_size,
    overlap,
    start,             \* where the next window starts
    iteration,         \* how many times the loop body has run
    chunks,            \* the (start_char, end_char, content) windows so far
    chunk_pc,          \* entry, loop, returned, or the error raised
    \* the kg_edges table under KGService.upsert_edges
    kg_edges,          \* the committed rows
    upsert_call,       \* the arguments and outcome of the latest call
    upsert_count,      \* how many calls have been made
    \* concurrent upsert_edges calls, one database session each
    edge_table,        \* the committed rows of kg_edges
    upserters,         \* each session, where its upsert_edges call stands
    \* the input and output of _prepare_concepts
    llm_concepts,      \* response.concepts, as the model returned them
    concepts_data,     \* what _prepare_concepts put in the state
    \* a flashcard generation run with the content of its cards
    card_node,         \* the node of the flashcard graph about to run, with the cards spelled out
    card_state,        \* the FlashcardState with its cards
    card_table,        \* the flashcards rows committed
    card_output,       \* the FlashcardAgentOutput returned, or the error raised
    \* one invocation of a compiled graph, node by node
    pipeline,          \* which of the five compiled graphs is invoked
    pipe_node,         \* the node about to run
    pipe_trace,        \* the nodes that ran, each with the label its router returned
    pipe_error,        \* whether the state carries an error
    \* the outcome of an ingestion run
    ingestion_output,  \* what IngestionAgent._run_internal returned or raised
    \* concurrent record_review calls for one (flashcard, user) pair
    reviewers,         \* each concurrent record_review call, where it stands
    \* the stored chunks of one document, their embeddings and vector points
    chunk_rows,        \* document_chunks rows of the document
    embedding_rows,    \* embeddings rows with entity_type document_chunk
    qdrant_points,     \* points of the chunks collection
    chunk_calls,       \* chunk_document calls made so far
    embed_calls,       \* embed_chunks calls made so far
    reingest_pc,       \* how the last service call ended
    \* the concepts table under upsert_concepts
    concept_rows,      \* concepts rows
    concept_call,      \* the last upsert_concepts call and how it ended
    concept_count,     \* upsert_concepts calls made so far
    \* the edge steps of one KG extraction run
    llm_edges,         \* response.edges of the KG extraction
    created_concepts,  \* what upsert_concepts returned to the run
    name_to_id,        \* the mapping _build_name_mapping made
    edges_data,        \* what _prepare_edges made
    run_edges,         \* kg_edges rows of the workspace
    kg_pc,             \* the node the run stands at
    \* one KG run from _find_related_concepts on
    rel_concepts,      \* how many concepts the run upserted
    rel_index,         \* the concept the loop is at
    rel_step,          \* where _find_related_concepts stands
    rel_similar,       \* similar concepts left for the concept
    rel_expired,       \* the session was rolled back, its objects are expired
    rel_attempted,     \* the concepts the loop has taken up
    rel_state,         \* the KG state as far as the node writes it
    rel_run,           \* how the run ended
    \* the preference lookup of the three optional coroutines
    pref_row,          \* the user_preferences row of the user
    pref_pending,      \* the coroutines whose default row is pending in the session
    pref_pc            \* where each coroutine stands

srsVars == <<flashcardExists, srs_state, reviews, clock, ticks, budget, lastCall>>
fnVars == <<fnGrade, fnPrev, fnNow, fnOut>>
apiVars == <<documents, agent_runs, requests>>
ingVars == <<node, ingestion_state, steps, document_row, preferences, raw_text,
             sub_pc, sub_faulted, kg_edge_index, session_new, session_expired,
             db_rows>>

runVars == <<run_row, run_pc, run_sync, run_logged>>

graphVars == <<graph, graph_node, graph_state, graph_failure, agent_result>>

oldVars == <<srsVars, fnVars, apiVars, ingVars>>
chatVars == <<chat_node, chat_state, chat_failure, chat_visited, chat_output>>
chunkVars == <<text, chunk_size, overlap, start, iteration, chunks, chunk_pc>>
edgeVars == <<kg_edges, upsert_call, upsert_count>>
raceVars == <<edge_table, upserters>>
prepVars == <<llm_concepts, concepts_data>>
cardVars == <<card_node, card_state, card_table, card_output>>
pipeVars == <<pipeline, pipe_node, pipe_trace, pipe_error>>
ingOutVars == <<ingestion_output>>
reviewRaceVars == <<reviewers>>
reingestVars == <<chunk_rows, embedding_rows, qdrant_points, chunk_calls, embed_calls, reingest_pc>>
conceptVars == <<concept_rows, concept_call, concept_count>>
edgePrepVars == <<llm_edges, created_concepts, name_to_id, edges_data, run_edges, kg_pc>>
relatedVars == <<rel_concepts, rel_index, rel_step, rel_similar, rel_expired, rel_attempted, rel_state, rel_run>>
prefVars == <<pref_row, pref_pending, pref_pc>>
restVars == <<runVars, graphVars, chatVars, chunkVars, edgeVars, raceVars, prepVars, cardVars, pipeVars, ingOutVars, reviewRaceVars, reingestVars, conceptVars, edgePrepVars, relatedVars, prefVars>>

\* what each of the later models leaves alone
exceptRun == <<oldVars, graphVars, chatVars, chunkVars, edgeVars, raceVars, prepVars, cardVars, pipeVars, ingOutVars, reviewRaceVars, reingestVars, conceptVars, edgePrepVars, relatedVars, prefVars>>
exceptGraph == <<oldVars, runVars, chatVars, chunkVars, edgeVars, raceVars, prepVars, cardVars, pipeVars, ingOutVars, reviewRaceVars, reingestVars, conceptVars, edgePrepVars, relatedVars, prefVars>>
exceptChat == <<oldVars, runVars, graphVars, chunkVars, edgeVars, raceVars, prepVars, cardVars, pipeVars, ingOutVars, reviewRaceVars, reingestVars, conceptVars, edgePrepVars, relatedVars, prefVars>>
exceptChunk == <<oldVars, runVars, graphVars, chatVars, edgeVars, raceVars, prepVars, cardVars, pipeVars, ingOutVars, reviewRaceVars, reingestVars, conceptVars, edgePrepVars, relatedVars, prefVars>>
exceptEdge == <<oldVars, runVars, graphVars, chatVars, chunkVars, raceVars, prepVars, cardVars, pipeVars, ingOutVars, reviewRaceVars, reingestVars, conceptVars, edgePrepVars, relatedVars, prefVars>>
exceptRace == <<oldVars, runVars, graphVars, chatVars, chunkVars, edgeVars, prepVars, cardVars, pipeVars, ingOutVars, reviewRaceVars, reingestVars, conceptVars, edgePrepVars, relatedVars, prefVars>>
exceptPrep == <<oldVars, runVars, graphVars, chatVars, chunkVars, edgeVars, raceVars, cardVars, pipeVars, ingOutVars, reviewRaceVars, reingestVars, conceptVars, edgePrepVars, relatedVars, prefVars>>
exceptCard == <<oldVars, runVars, graphVars, chatVars, chunkVars, edgeVars, raceVars, prepVars, pipeVars, ingOutVars, reviewRaceVars, reingestVars, conceptVars, edgePrepVars, relatedVars, prefVars>>
exceptPipe == <<oldVars, runVars, graphVars, chatVars, chunkVars, edgeVars, raceVars, prepVars, cardVars, ingOutVars, reviewRaceVars, reingestVars, conceptVars, edgePrepVars, relatedVars, prefVars>>
exceptIngOut == <<oldVars, runVars, graphVars, chatVars, chunkVars, edgeVars, raceVars, prepVars, cardVars, pipeVars, reviewRaceVars, reingestVars, conceptVars, edgePrepVars, relatedVars, prefVars>>
exceptIngestion == <<srsVars, fnVars, apiVars, runVars, graphVars, chatVars, chunkVars, edgeVars, raceVars, prepVars, cardVars, pipeVars, reviewRaceVars, reingestVars, conceptVars, edgePrepVars, relatedVars, prefVars>>
exceptReviewRace == <<oldVars, runVars, graphVars, chatVars, chunkVars, edgeVars, raceVars, prepVars, cardVars, pipeVars, ingOutVars, reingestVars, conceptVars, edgePrepVars, relatedVars, prefVars>>
exceptReview == <<fnVars, apiVars, ingVars, runVars, graphVars, chatVars, chunkVars, edgeVars, raceVars, prepVars, cardVars, pipeVars, ingOutVars, reingestVars, conceptVars, edgePrepVars, relatedVars, prefVars>>
exceptReingest == <<oldVars, runVars, graphVars, chatVars, chunkVars, edgeVars, raceVars, prepVars, cardVars, pipeVars, ingOutVars, reviewRaceVars, conceptVars, edgePrepVars, relatedVars, prefVars>>
exceptConcept == <<oldVars, runVars, graphVars, chatVars, chunkVars, edgeVars, raceVars, prepVars, cardVars, pipeVars, ingOutVars, reviewRaceVars, reingestVars, edgePrepVars, relatedVars, prefVars>>
exceptEdgePrep == <<oldVars, runVars, graphVars, chatVars, chunkVars, edgeVars, raceVars, prepVars, cardVars, pipeVars, ingOutVars, reviewRaceVars, reingestVars, conceptVars, relatedVars, prefVars>>
exceptRelated == <<oldVars, runVars, graphVars, chatVars, chunkVars, edgeVars, raceVars, prepVars, cardVars, pipeVars, ingOutVars, reviewRaceVars, reingestVars, conceptVars, edgePrepVars, prefVars>>
exceptPref == <<oldVars, runVars, graphVars, chatVars, chunkVars, edgeVars, raceVars, prepVars, cardVars, pipeVars, ingOutVars, reviewRaceVars, reingestVars, conceptVars, edgePrepVars, relatedVars>>

vars == <<oldVars, restVars>>

SECONDS_PER_DAY == 86400
DEFAULT_COOLDOWN_SECONDS == 30

Grades == -1 .. 5
ClockSteps == {1, 29, SECONDS_PER_DAY}

NoCall == [grade |-> NoInt, force |-> FALSE, result |-> "none", at |-> 0]

\* the outcome of record_review's checks, in the order the code makes them
\* (the mutant has no cooldown check)
ReviewOutcomeNoCooldown(grade, force, state, now, cooldown_seconds) ==
    IF grade < 0 \/ grade > 4 THEN "invalid_grade"
    ELSE IF ~flashcardExists THEN "not_found"
    ELSE IF ~force /\ state # NoState /\ state.due_at # NoTime /\ state.due_at > now
         THEN "not_due"
    ELSE "recorded"

ReviewOutcome(grade, force, state, now, cooldown_seconds) ==
    IF grade < 0 \/ grade > 4 THEN "invalid_grade"
    ELSE IF ~flashcardExists THEN "not_found"
    ELSE IF ~force /\ state # NoState /\ state.due_at # NoTime /\ state.due_at > now
         THEN "not_due"
    ELSE IF ~force /\ state # NoState /\ state.last_reviewed_at # NoTime
            /\ now - state.last_reviewed_at < cooldown_seconds
         THEN "cooldown"
    ELSE "recorded"

\* the SRS row record_review writes
ReviewedState(grade, state, now) ==
    LET srs_update == CalculateSrsUpdate(grade, state)
    IN  [interval_days |-> srs_update.interval_days,
         ease_factor |-> srs_update.ease_factor,
         repetitions |-> srs_update.repetitions,
         lapses |-> srs_update.lapses,
         last_reviewed_at |-> now,
         due_at |-> IF srs_update.interval_days > 0
                    THEN now + srs_update.interval_days * SECONDS_PER_DAY
                    ELSE now]

\* the row after n failing forced reviews of a new card, all at time 0
RECURSIVE StateAfterFailures(_)
StateAfterFailures(n) ==
    IF n = 0 THEN NoState ELSE ReviewedState(0, StateAfterFailures(n - 1), 0)

IdleSrs ==
    /\ flashcardExists = FALSE
    /\ srs_state = NoState
    /\ reviews = 0
    /\ clock = 0
    /\ ticks = 0
    /\ budget = 0
    /\ lastCall = NoCall

IdleFn ==
    /\ fnGrade = NoInt
    /\ fnPrev = NoState
    /\ fnNow = NoTime
    /\ fnOut = NoState

IdleApi ==
    /\ documents = <<>>
    /\ agent_runs = <<>>
    /\ requests = <<>>

IdleIng ==
    /\ node = "END"
    /\ ingestion_state = NoState
    /\ steps = {}
    /\ document_row = NoState
    /\ preferences = <<>>
    /\ raw_text = FALSE
    /\ sub_pc = <<>>
    /\ sub_faulted = <<>>
    /\ kg_edge_index = 0
    /\ session_new = {}
    /\ session_expired = FALSE
    /\ db_rows = {}

IdleRun ==
    /\ run_row = NoState
    /\ run_pc = "done"
    /\ run_sync = FALSE
    /\ run_logged = 0

IdleGraph ==
    /\ graph = "flashcard"
    /\ graph_node = "RETURNED"
    /\ graph_state = NoState
    /\ graph_failure = NoError
    /\ agent_result = NoState

IdleChat ==
    /\ chat_node = "RETURNED"
    /\ chat_state = NoState
    /\ chat_failure = NoError
    /\ chat_visited = {}
    /\ chat_output = NoState

IdleChunk ==
    /\ text = <<>>
    /\ chunk_size = 1
    /\ overlap = 0
    /\ start = 0
    /\ iteration = 0
    /\ chunks = <<>>
    /\ chunk_pc = "returned"

IdleEdge ==
    /\ kg_edges = {}
    /\ upsert_call = NoState
    /\ upsert_count = 0

IdleRace ==
    /\ edge_table = {}
    /\ upserters = <<>>

IdlePrep ==
    /\ llm_concepts = <<>>
    /\ concepts_data = <<>>

IdleCard ==
    /\ card_node = "idle"
    /\ card_state = NoState
    /\ card_table = <<>>
    /\ card_output = NoState

IdlePipe ==
    /\ pipeline = "ingestion"
    /\ pipe_node = "END"
    /\ pipe_trace = <<>>
    /\ pipe_error = FALSE

IdleIngOut ==
    /\ ingestion_output = NoState

IdleReviewRace ==
    /\ reviewers = <<>>

IdleReingest ==
    /\ chunk_rows = {}
    /\ embedding_rows = {}
    /\ qdrant_points = {}
    /\ chunk_calls = 0
    /\ embed_calls = 0
    /\ reingest_pc = "idle"

IdleConcept ==
    /\ concept_rows = {}
    /\ concept_call = NoState
    /\ concept_count = 0

IdleEdgePrep ==
    /\ llm_edges = <<>>
    /\ created_concepts = <<>>
    /\ name_to_id = {}
    /\ edges_data = <<>>
    /\ run_edges = {}
    /\ kg_pc = "END"

IdleRelated ==
    /\ rel_concepts = 0
    /\ rel_index = 0
    /\ rel_step = "END"
    /\ rel_similar = 0
    /\ rel_expired = FALSE
    /\ rel_attempted = {}
    /\ rel_state = NoState
    /\ rel_run = "none"

IdlePref ==
    /\ pref_row = NoState
    /\ pref_pending = {}
    /\ pref_pc = <<>>

IdleRest == IdleRun /\ IdleGraph /\ IdleChat /\ IdleChunk /\ IdleEdge /\ IdleRace /\ IdlePrep /\ IdleCard /\ IdlePipe /\ IdleIngOut /\ IdleReviewRace /\ IdleReingest /\ IdleConcept /\ IdleEdgePrep /\ IdleRelated /\ IdlePref

\* a card never reviewed, or a card that has lapsed SeedFailures times
InitSrs ==
    /\ clock = 0
    /\ ticks = 0
    /\ budget = MaxReviews
    /\ lastCall = NoCall
    /\ \/ /\ flashcardExists = FALSE
          /\ srs_state = NoState
          /\ reviews = 0
       \/ /\ flashcardExists = TRUE
          /\ srs_state = StateAfterFailures(SeedFailures)
          /\ reviews = SeedFailures

Init == InitSrs /\ IdleFn /\ IdleApi /\ IdleIng /\ IdleRest

\* create_flashcards_from_text: the flashcard row is inserted
CreateFlashcard ==
    /\ ~flashcardExists
    /\ flashcardExists' = TRUE
    /\ UNCHANGED <<srs_state, reviews, clock, ticks, budget, lastCall>>
    /\ UNCHANGED <<fnVars, apiVars, ingVars, restVars>>

\* time passes between requests
AdvanceClock ==
    /\ ticks < MaxTicks
    /\ \E step \in ClockSteps : clock' = clock + step
    /\ ticks' = ticks + 1
    /\ UNCHANGED <<flashcardExists, srs_state, reviews, budget, lastCall>>
    /\ UNCHANGED <<fnVars, apiVars, ingVars, restVars>>

\* record_review, one call handled alone
RecordReview(grade, force) ==
    LET outcome == ReviewOutcome(grade, force, srs_state, clock, DEFAULT_COOLDOWN_SECONDS)
    IN  /\ budget > 0
        /\ lastCall' = [grade |-> grade, force |-> force, result |-> outcome, at |-> clock]
        /\ IF outcome = "recorded"
           THEN /\ srs_state' = ReviewedState(grade, srs_state, clock)
                /\ reviews' = reviews + 1
                /\ budget' = budget - 1
           ELSE UNCHANGED <<srs_state, reviews, budget>>
        /\ UNCHANGED <<flashcardExists, clock, ticks>>
        /\ UNCHANGED <<fnVars, apiVars, ingVars, restVars>>

Review == \E grade \in Grades, force \in BOOLEAN : RecordReview(grade, force)

Next ==
    \/ CreateFlashcard
    \/ AdvanceClock
    \/ Review

Spec == Init /\ [][Next]_vars

(***************************************************************************)
(* The scheduler applied once to a given row: the inputs are drawn from    *)
(* FnRows, the review time from FnTimes.                                   *)
(***************************************************************************)
\* the double nearest to k/100
Decimal(k) == RoundToSpacing(k, 0, Spacing(k, 0))

FnIntervals == {0, 1, 6, 10, 30}
FnEases == {130, 135, 200, 230, 240, 250}
FnRepetitions == {0, 1, 2, 5}
FnLapses == {0, 1}
FnTimes == {0, 1000}

FnRows ==
    { [interval_days |-> i, ease_factor |-> Decimal(e), repetitions |-> r,
       lapses |-> l, last_reviewed_at |-> 0, due_at |-> i * SECONDS_PER_DAY] :
         i \in FnIntervals, e \in FnEases, r \in FnRepetitions, l \in FnLapses }

InitFn ==
    /\ IdleSrs
    /\ IdleApi
    /\ IdleIng
    /\ IdleRest
    /\ fnGrade \in 0 .. 4
    /\ fnPrev \in FnRows \cup {NoState}
    /\ fnNow \in FnTimes
    /\ fnOut = NoState

\* record_review's computation and write, past its checks
ApplyReview ==
    /\ fnOut = NoState
    /\ fnOut' = ReviewedState(fnGrade, fnPrev, fnNow)
    /\ UNCHANGED <<fnGrade, fnPrev, fnNow>>
    /\ UNCHANGED <<srsVars, apiVars, ingVars, restVars>>

NextFn == ApplyReview

SpecFn == InitFn /\ [][NextFn]_vars

(***************************************************************************)
(* POST /documents/{document_id}/ingest, the upload that may queue an      *)
(* ingestion by itself, and the background task that executes a queued     *)
(* run.  Every request has its own session; a request is handled in two    *)
(* steps because the handler awaits the database between its check for an  *)
(* active run and the insertion of the new run.                            *)
(***************************************************************************)
MaxRuns == 2

Documents == {"d1", "d2"}
Workspaces == {"w1", "w2"}
RequestSlots == {1, 2}

NoDocument == "absent"
NoRequest == [pc |-> "idle", document_id |-> "", workspace_id |-> "", response |-> 0]

\* AgentRunService.get_active_runs: the queued or running runs of the
\* workspace and agent whose input names the document
GetActiveRuns(workspace_id, agent_name, document_id) ==
    { i \in DOMAIN agent_runs :
        /\ agent_runs[i].status \in {"queued", "running"}
        /\ agent_runs[i].workspace_id = workspace_id
        /\ agent_runs[i].agent_name = agent_name
        /\ agent_runs[i].input.document_id = document_id }

\* AgentRunService.create_run: the table with the new row
CreateRun(workspace_id, agent_name, document_id, status) ==
    Append(agent_runs, [workspace_id |-> workspace_id,
                        agent_name |-> agent_name,
                        status |-> status,
                        input |-> [document_id |-> document_id]])

\* ingest_document's checks: the status it answers with, or 0 to go on
IngestDecision(document_id, workspace_id) ==
    IF documents[document_id] = NoDocument THEN 404
    ELSE IF documents[document_id] \in {"storing", "chunking", "embedding"} THEN 409
    ELSE IF GetActiveRuns(workspace_id, "ingestion", document_id) # {} THEN 409
    ELSE 0

InitApi ==
    /\ IdleSrs
    /\ IdleFn
    /\ IdleIng
    /\ IdleRest
    /\ documents = [d \in Documents |-> IF d = "d1" THEN "processed" ELSE NoDocument]
    /\ agent_runs = <<>>
    /\ requests = [r \in RequestSlots |-> NoRequest]

\* create_document: the row is inserted, the text stored, and with
\* auto_ingest_on_upload a run is queued without any check
CreateDocument(document_id, workspace_id, has_text, auto_ingest_on_upload) ==
    /\ documents[document_id] = NoDocument
    /\ documents' = [documents EXCEPT ![document_id] =
                        IF has_text THEN "processed" ELSE "pending"]
    /\ IF auto_ingest_on_upload /\ has_text
       THEN /\ Len(agent_runs) < MaxRuns
            /\ agent_runs' = CreateRun(workspace_id, "ingestion", document_id, "queued")
       ELSE UNCHANGED agent_runs
    /\ UNCHANGED <<requests, srsVars, fnVars, ingVars, restVars>>

\* ingest_document up to the result of get_active_runs
IngestDocumentCheck(r, document_id, workspace_id) ==
    LET decision == IngestDecision(document_id, workspace_id)
    IN  /\ requests[r].pc = "idle"
        /\ requests' = [requests EXCEPT ![r] =
              [pc |-> IF decision = 0 THEN "create" ELSE "done",
               document_id |-> document_id,
               workspace_id |-> workspace_id,
               response |-> decision]]
        /\ UNCHANGED <<documents, agent_runs, srsVars, fnVars, ingVars, restVars>>

\* ingest_document from create_run on: the run is queued and the task added,
\* or the insertion fails and the answer is 500
IngestDocumentQueue(r, created) ==
    /\ requests[r].pc = "create"
    /\ IF created
       THEN /\ Len(agent_runs) < MaxRuns
            /\ agent_runs' = CreateRun(requests[r].workspace_id, "ingestion",
                                       requests[r].document_id, "queued")
            /\ requests' = [requests EXCEPT ![r].pc = "done", ![r].response = 202]
       ELSE /\ requests' = [requests EXCEPT ![r].pc = "done", ![r].response = 500]
            /\ UNCHANGED agent_runs
    /\ UNCHANGED <<documents, srsVars, fnVars, ingVars, restVars>>

\* the response is sent; the slot takes the next request
CloseRequest(r) ==
    /\ requests[r].pc = "done"
    /\ requests' = [requests EXCEPT ![r] = NoRequest]
    /\ UNCHANGED <<documents, agent_runs, srsVars, fnVars, ingVars, restVars>>

\* execute_agent_async: queued -> running
ExecuteAgentStart(i) ==
    /\ agent_runs[i].status = "queued"
    /\ agent_runs' = [agent_runs EXCEPT ![i].status = "running"]
    /\ UNCHANGED <<documents, requests, srsVars, fnVars, ingVars, restVars>>

\* execute_agent_async: the agent returns or raises; the pipeline has set
\* the document's status to ready or failed
ExecuteAgentFinish(i, succeeded) ==
    /\ agent_runs[i].status = "running"
    /\ agent_runs' = [agent_runs EXCEPT ![i].status =
                         IF succeeded THEN "succeeded" ELSE "failed"]
    /\ documents' = [documents EXCEPT ![agent_runs[i].input.document_id] =
                         IF succeeded THEN "ready" ELSE "failed"]
    /\ UNCHANGED <<requests, srsVars, fnVars, ingVars, restVars>>

Upload ==
    \E d \in Documents, w \in Workspaces, t \in BOOLEAN, a \in BOOLEAN :
        CreateDocument(d, w, t, a)

Ingest ==
    \/ \E r \in RequestSlots, d \in Documents, w \in Workspaces :
           IngestDocumentCheck(r, d, w)
    \/ \E r \in RequestSlots, created \in BOOLEAN : IngestDocumentQueue(r, created)
    \/ \E r \in RequestSlots : CloseRequest(r)

ExecuteAgent ==
    \/ \E i \in DOMAIN agent_runs : ExecuteAgentStart(i)
    \/ \E i \in DOMAIN agent_runs, succeeded \in BOOLEAN : ExecuteAgentFinish(i, succeeded)

NextApi ==
    \/ Upload
    \/ Ingest
    \/ ExecuteAgent

SpecApi == InitApi /\ [][NextApi]_vars

(***************************************************************************)
(* One run of the ingestion graph.  The nodes run one after the other; the *)
(* optional-content node starts three coroutines that interleave at their  *)
(* awaits and share the run's single database session.                     *)
(***************************************************************************)
SubGenerators == {"summary", "flashcards", "kg"}

\* the edges the KG extraction of this run has to upsert, in order
KgEdges == <<"edge1", "edge2">>

\* IngestionAgent._run_internal: the state the graph is invoked with
InitialState ==
    [document |-> FALSE, chunks |-> 0, embeddings |-> 0,
     error |-> NoError, status |-> "pending"]

\* {**state, "error": ..., "status": "failed"}
Failed(st, error) == [st EXCEPT !.error = error, !.status = "failed"]

AlwaysContinue(st) == "continue"
ShouldContinue(st) == IF st.error # NoError THEN "error" ELSE "continue"

ShouldContinueAfterSummary(st) == "continue"

\* build_ingestion_graph: the node an edge leads to
NextNode(from, label) ==
    CASE from = "validate_document" -> "store_raw_text"
      [] from = "store_raw_text" ->
            IF label = "continue" THEN "chunk_document" ELSE "handle_error"
      [] from = "chunk_document" ->
            IF label = "continue" THEN "embed_chunks" ELSE "handle_error"
      [] from = "embed_chunks" ->
            IF label = "continue" THEN "generate_optional_content" ELSE "handle_error"
      [] from = "generate_optional_content" -> "update_status"
      [] from = "update_status" -> "END"
      [] from = "handle_error" -> "END"

\* the step name each sub-generator logs under
SubStep(g) ==
    CASE g = "summary" -> "summary"
      [] g = "flashcards" -> "flashcards"
      [] g = "kg" -> "kg_extraction"

\* what _generate_optional_content returns once the three have finished
\* (the mutant reports a failed sub-generator in the state)
OptionalContentResultFailsRun(st) ==
    IF \E g \in SubGenerators : <<SubStep(g), "failed">> \in steps
    THEN Failed(st, "optional content failed")
    ELSE st

OptionalContentResult(st) == st

InitIng ==
    /\ IdleSrs
    /\ IdleFn
    /\ IdleApi
    /\ IdleRest
    /\ node = "validate_document"
    /\ ingestion_state = InitialState
    /\ steps = {}
    /\ document_row \in {NoState, [content |-> FALSE, status |-> "pending"],
                         [content |-> TRUE, status |-> "processed"]}
    /\ preferences \in [SubGenerators -> BOOLEAN]
    /\ raw_text \in BOOLEAN
    /\ sub_pc = [g \in SubGenerators |-> "idle"]
    /\ sub_faulted = [g \in SubGenerators |-> FALSE]
    /\ kg_edge_index = 1
    /\ session_new = {}
    /\ session_expired = FALSE
    /\ db_rows = {}

\* _validate_document; the edge to store_raw_text is unconditional
ValidateDocument(db_ok) ==
    /\ node = "validate_document"
    /\ IF ~db_ok
       THEN /\ node' = "RAISED"
            /\ steps' = steps \cup {<<"validate_document", "started">>}
            /\ UNCHANGED ingestion_state
       ELSE /\ node' = NextNode("validate_document", "continue")
            /\ IF document_row = NoState
               THEN /\ ingestion_state' = Failed(ingestion_state, "document not found")
                    /\ steps' = steps \cup {<<"validate_document", "started">>,
                                            <<"validate_document", "failed">>}
               ELSE /\ ingestion_state' = [ingestion_state EXCEPT
                                              !.document = TRUE, !.status = "pending"]
                    /\ steps' = steps \cup {<<"validate_document", "started">>,
                                            <<"validate_document", "completed">>}
    /\ UNCHANGED <<document_row, preferences, raw_text, sub_pc, sub_faulted,
                   kg_edge_index, session_new, session_expired, db_rows>>
    /\ UNCHANGED <<srsVars, fnVars, apiVars, restVars>>

\* _store_raw_text and the router after it; DocumentService.store_raw_text
\* raises the same "Document ... not found" as _validate_document reports
StoreRawText(db_ok) ==
    LET stored == raw_text /\ db_ok /\ document_row # NoState
        after ==
            IF raw_text
            THEN IF stored
                 THEN [ingestion_state EXCEPT !.status = "storing"]
                 ELSE Failed(ingestion_state,
                             IF db_ok THEN "document not found"
                             ELSE "store_raw_text raised")
            ELSE IF ~ingestion_state.document
                 THEN Failed(ingestion_state, "document is None")
            ELSE IF ~document_row.content
                 THEN Failed(ingestion_state, "no content and no raw_text")
            ELSE [ingestion_state EXCEPT !.status = "storing"]
    IN  /\ node = "store_raw_text"
        /\ ingestion_state' = after
        /\ document_row' = IF stored THEN [content |-> TRUE, status |-> "processed"]
                           ELSE document_row
        /\ steps' = steps \cup {<<"store_raw_text", "started">>,
                                <<"store_raw_text",
                                  IF after.status = "storing" THEN "completed"
                                                              ELSE "failed">>}
        /\ node' = NextNode("store_raw_text", ShouldContinue(after))
        /\ UNCHANGED <<preferences, raw_text, sub_pc, sub_faulted, kg_edge_index,
                       session_new, session_expired, db_rows>>
        /\ UNCHANGED <<srsVars, fnVars, apiVars, restVars>>

\* _chunk_document (through _execute_step) and the router after it
ChunkDocument(ok) ==
    LET after == IF ok THEN [ingestion_state EXCEPT !.chunks = 2, !.status = "chunking"]
                 ELSE Failed(ingestion_state, "chunk_document raised")
    IN  /\ node = "chunk_document"
        /\ ingestion_state' = after
        /\ steps' = steps \cup {<<"chunk", "started">>,
                                <<"chunk", IF ok THEN "completed" ELSE "failed">>}
        /\ node' = NextNode("chunk_document", ShouldContinue(after))
        /\ UNCHANGED <<document_row, preferences, raw_text, sub_pc, sub_faulted,
                       kg_edge_index, session_new, session_expired, db_rows>>
        /\ UNCHANGED <<srsVars, fnVars, apiVars, restVars>>

\* _embed_chunks (through _execute_step) and the router after it
EmbedChunks(ok) ==
    LET after == IF ok THEN [ingestion_state EXCEPT !.embeddings = 2, !.status = "embedding"]
                 ELSE Failed(ingestion_state, "embed_chunks raised")
    IN  /\ node = "embed_chunks"
        /\ ingestion_state' = after
        /\ steps' = steps \cup
              (IF ok THEN {<<"embed", "started">>, <<"embed", "completed">>,
                           <<"upsert", "started">>, <<"upsert", "completed">>}
                     ELSE {<<"embed", "started">>, <<"embed", "failed">>})
        /\ node' = NextNode("embed_chunks", ShouldContinue(after))
        /\ UNCHANGED <<document_row, preferences, raw_text, sub_pc, sub_faulted,
                       kg_edge_index, session_new, session_expired, db_rows>>
        /\ UNCHANGED <<srsVars, fnVars, apiVars, restVars>>

\* what a step of a sub-generator leaves alone outside the optional stage
stageFrame == <<node, ingestion_state, document_row, preferences, raw_text,
                srsVars, fnVars, apiVars, restVars>>

\* the sub-generator returns after logging its outcome
SubFinish(g, logged, faulted) ==
    /\ sub_pc' = [sub_pc EXCEPT ![g] = "done"]
    /\ steps' = steps \cup {<<SubStep(g), logged>>}
    /\ sub_faulted' = [sub_faulted EXCEPT ![g] = @ \/ faulted]

SubGoto(g, pc) ==
    /\ sub_pc' = [sub_pc EXCEPT ![g] = pc]
    /\ UNCHANGED <<steps, sub_faulted>>

\* AsyncSession.commit on the shared session: everything added to it is
\* inserted, whoever added it
SessionCommit(rows) ==
    /\ db_rows' = db_rows \cup session_new \cup rows
    /\ session_new' = {}
    /\ UNCHANGED session_expired

\* AsyncSession.rollback on the shared session: everything added and not
\* committed is expunged, whoever added it, and every loaded object expires
SessionRollback ==
    /\ session_new' = {}
    /\ session_expired' = TRUE
    /\ UNCHANGED db_rows

SessionUntouched == UNCHANGED <<session_new, session_expired, db_rows>>

\* _generate_optional_content up to asyncio.gather: the three coroutines start
GenerateOptionalContentStart ==
    /\ node = "generate_optional_content"
    /\ \A g \in SubGenerators : sub_pc[g] = "idle"
    /\ sub_pc' = [g \in SubGenerators |-> "prefs"]
    /\ UNCHANGED <<steps, sub_faulted, kg_edge_index>>
    /\ SessionUntouched
    /\ UNCHANGED stageFrame

\* the head of _generate_summary, _generate_flashcards and _generate_kg:
\* get_preferences, then the flag
GetPreferences(g, db_ok) ==
    /\ node = "generate_optional_content"
    /\ sub_pc[g] = "prefs"
    /\ IF ~db_ok THEN SubFinish(g, "failed", TRUE)
       ELSE IF ~preferences[g] THEN SubFinish(g, "skipped", FALSE)
       ELSE /\ sub_pc' = [sub_pc EXCEPT ![g] = "agent"]
            /\ steps' = steps \cup {<<SubStep(g), "started">>}
            /\ UNCHANGED sub_faulted
    /\ UNCHANGED kg_edge_index
    /\ SessionUntouched
    /\ UNCHANGED stageFrame

\* the agent's graph up to its first write: retrieval and the LLM call
RunAgent(g, generated) ==
    /\ node = "generate_optional_content"
    /\ sub_pc[g] = "agent"
    /\ IF generated
       THEN SubGoto(g, IF g = "kg" THEN "concepts" ELSE "store")
       ELSE SubFinish(g, "failed", TRUE)
    /\ UNCHANGED kg_edge_index
    /\ SessionUntouched
    /\ UNCHANGED stageFrame

\* summary_graph._store_summary, then the check that the summary is stored
StoreSummary(db_ok) ==
    /\ node = "generate_optional_content"
    /\ sub_pc["summary"] = "store"
    /\ IF db_ok
       THEN /\ SessionCommit({"summary_text"})
            /\ SubFinish("summary", "completed", FALSE)
       ELSE /\ SessionRollback
            /\ SubFinish("summary", "failed", TRUE)
    /\ UNCHANGED kg_edge_index
    /\ UNCHANGED stageFrame

\* FlashcardService.create_flashcards_from_text: the cards are added and
\* committed without an await in between
CreateFlashcards(db_ok) ==
    /\ node = "generate_optional_content"
    /\ sub_pc["flashcards"] = "store"
    /\ IF db_ok
       THEN /\ SessionCommit({"card"})
            /\ SubGoto("flashcards", "verify")
       ELSE /\ SessionRollback
            /\ SubFinish("flashcards", "failed", TRUE)
    /\ UNCHANGED kg_edge_index
    /\ UNCHANGED stageFrame

\* _generate_flashcards after the agent: flush, then count the cards stored
VerifyFlashcards(db_ok) ==
    /\ node = "generate_optional_content"
    /\ sub_pc["flashcards"] = "verify"
    /\ IF db_ok
       THEN SubFinish("flashcards",
                      IF "card" \in db_rows THEN "completed" ELSE "warning", FALSE)
       ELSE SubFinish("flashcards", "failed", TRUE)
    /\ UNCHANGED kg_edge_index
    /\ SessionUntouched
    /\ UNCHANGED stageFrame

\* KGService.upsert_concepts: one lookup, then the concepts are added,
\* committed and refreshed
UpsertConcepts(db_ok) ==
    /\ node = "generate_optional_content"
    /\ sub_pc["kg"] = "concepts"
    /\ IF db_ok
       THEN /\ db_rows' = db_rows \cup session_new \cup {"concepts"}
            /\ session_new' = {}
            /\ session_expired' = FALSE
            /\ SubGoto("kg", "mapping")
       ELSE /\ SessionRollback
            /\ SubFinish("kg", "failed", TRUE)
    /\ UNCHANGED kg_edge_index
    /\ UNCHANGED stageFrame

\* kg_graph._build_name_mapping reads c.name and c.id outside any try: on
\* expired objects the attribute access raises and the agent fails
BuildNameMapping ==
    /\ node = "generate_optional_content"
    /\ sub_pc["kg"] = "mapping"
    /\ IF session_expired
       THEN SubFinish("kg", "failed", FALSE)
       ELSE SubGoto("kg", "edges")
    /\ kg_edge_index' = 1
    /\ SessionUntouched
    /\ UNCHANGED stageFrame

\* KGService.upsert_edges, one turn of its loop: the awaited lookup of the
\* edge, then db.add of the new edge
UpsertEdge(db_ok) ==
    /\ node = "generate_optional_content"
    /\ sub_pc["kg"] = "edges"
    /\ kg_edge_index <= Len(KgEdges)
    /\ IF db_ok
       THEN /\ session_new' = session_new \cup {KgEdges[kg_edge_index]}
            /\ kg_edge_index' = kg_edge_index + 1
            /\ SubGoto("kg", "edges")
       ELSE /\ SubFinish("kg", "failed", TRUE)
            /\ UNCHANGED <<session_new, kg_edge_index>>
    /\ UNCHANGED <<session_expired, db_rows>>
    /\ UNCHANGED stageFrame

\* KGService.upsert_edges after its loop: _commit_and_refresh of the edges;
\* refreshing an edge that is no longer in the session raises, which rolls
\* back and fails the agent
CommitEdges(db_ok) ==
    LET rows == db_rows \cup session_new
        edges == {KgEdges[i] : i \in DOMAIN KgEdges}
    IN  /\ node = "generate_optional_content"
        /\ sub_pc["kg"] = "edges"
        /\ kg_edge_index > Len(KgEdges)
        /\ IF ~db_ok
           THEN /\ SessionRollback
                /\ SubFinish("kg", "failed", TRUE)
           ELSE IF edges \subseteq rows
           THEN /\ SessionCommit({})
                /\ SubGoto("kg", "output")
           ELSE /\ db_rows' = rows
                /\ session_new' = {}
                /\ session_expired' = TRUE
                /\ SubFinish("kg", "failed", FALSE)
        /\ UNCHANGED kg_edge_index
        /\ UNCHANGED stageFrame

\* kg_graph._find_related_concepts (which catches what it raises) and
\* _build_output, which reads the concepts' attributes outside any try
BuildKgOutput ==
    /\ node = "generate_optional_content"
    /\ sub_pc["kg"] = "output"
    /\ SubFinish("kg", IF session_expired THEN "failed" ELSE "completed", FALSE)
    /\ UNCHANGED kg_edge_index
    /\ SessionUntouched
    /\ UNCHANGED stageFrame

\* _generate_optional_content after asyncio.gather, and the router after it
GenerateOptionalContentJoin ==
    LET after == OptionalContentResult(ingestion_state)
    IN  /\ node = "generate_optional_content"
        /\ \A g \in SubGenerators : sub_pc[g] = "done"
        /\ ingestion_state' = after
        /\ node' = NextNode("generate_optional_content",
                            ShouldContinueAfterSummary(after))
        /\ UNCHANGED <<steps, document_row, preferences, raw_text, sub_pc,
                       sub_faulted, kg_edge_index>>
        /\ SessionUntouched
        /\ UNCHANGED <<srsVars, fnVars, apiVars, restVars>>

\* _update_status: the document becomes ready if the commit goes through;
\* the state's status becomes completed either way
UpdateStatus(db_ok) ==
    /\ node = "update_status"
    /\ IF db_ok /\ document_row # NoState
       THEN /\ document_row' = [document_row EXCEPT !.status = "ready"]
            /\ SessionCommit({})
            /\ steps' = steps \cup {<<"audit", "started">>, <<"audit", "completed">>}
       ELSE /\ steps' = steps \cup
                  (IF db_ok THEN {<<"audit", "started">>}
                            ELSE {<<"audit", "started">>, <<"audit", "failed">>})
            /\ UNCHANGED document_row
            /\ SessionUntouched
    /\ ingestion_state' = [ingestion_state EXCEPT !.status = "completed"]
    /\ node' = NextNode("update_status", "continue")
    /\ UNCHANGED <<preferences, raw_text, sub_pc, sub_faulted, kg_edge_index>>
    /\ UNCHANGED <<srsVars, fnVars, apiVars, restVars>>

\* _handle_error: the document becomes failed if it is found and the commit
\* goes through; the state is returned as it came
HandleError(db_ok) ==
    /\ node = "handle_error"
    /\ IF db_ok /\ document_row # NoState
       THEN /\ document_row' = [document_row EXCEPT !.status = "failed"]
            /\ SessionCommit({})
            /\ steps' = steps \cup {<<"error_handling", "started">>,
                                    <<"error_handling", "completed">>}
       ELSE /\ steps' = steps \cup {<<"error_handling", "started">>,
                                    <<"error_handling", "failed">>}
            /\ UNCHANGED document_row
            /\ SessionUntouched
    /\ node' = NextNode("handle_error", "continue")
    /\ UNCHANGED <<ingestion_state, preferences, raw_text, sub_pc, sub_faulted,
                   kg_edge_index>>
    /\ UNCHANGED <<srsVars, fnVars, apiVars, restVars>>

Pipeline ==
    \/ \E db_ok \in BOOLEAN : ValidateDocument(db_ok)
    \/ \E db_ok \in BOOLEAN : StoreRawText(db_ok)
    \/ \E ok \in BOOLEAN : ChunkDocument(ok)
    \/ \E ok \in BOOLEAN : EmbedChunks(ok)
    \/ GenerateOptionalContentStart
    \/ GenerateOptionalContentJoin
    \/ \E db_ok \in BOOLEAN : UpdateStatus(db_ok)
    \/ \E db_ok \in BOOLEAN : HandleError(db_ok)

GenerateSummary ==
    \/ \E db_ok \in BOOLEAN : GetPreferences("summary", db_ok)
    \/ \E generated \in BOOLEAN : RunAgent("summary", generated)
    \/ \E db_ok \in BOOLEAN : StoreSummary(db_ok)

GenerateFlashcards ==
    \/ \E db_ok \in BOOLEAN : GetPreferences("flashcards", db_ok)
    \/ \E generated \in BOOLEAN : RunAgent("flashcards", generated)
    \/ \E db_ok \in BOOLEAN : CreateFlashcards(db_ok)
    \/ \E db_ok \in BOOLEAN : VerifyFlashcards(db_ok)

GenerateKg ==
    \/ \E db_ok \in BOOLEAN : GetPreferences("kg", db_ok)
    \/ \E generated \in BOOLEAN : RunAgent("kg", generated)
    \/ \E db_ok \in BOOLEAN : UpsertConcepts(db_ok)
    \/ BuildNameMapping
    \/ \E db_ok \in BOOLEAN : UpsertEdge(db_ok)
    \/ \E db_ok \in BOOLEAN : CommitEdges(db_ok)
    \/ BuildKgOutput

NextIng ==
    \/ Pipeline
    \/ GenerateSummary
    \/ GenerateFlashcards
    \/ GenerateKg

SpecIng == InitIng /\ [][NextIng]_vars

(***************************************************************************)
(* Properties of the scheduler and of review recording.                    *)
(***************************************************************************)
\* exact (real) arithmetic on values <<k, d>>, for stating what is expected
RealPlus(x, hundredths) == <<x[1] + hundredths, x[2]>>
RealMin(a, b) == IF FloatLess(b, a) THEN b ELSE a
RealMax(a, b) == IF FloatLess(a, b) THEN b ELSE a
AbsDiff(m, n) == IF m >= n THEN m - n ELSE n - m
\* equal up to one spacing of doubles in [2, 4), i.e. up to 2^-51
SameUpToRounding(a, b) == a[1] = b[1] /\ AbsDiff(a[2], b[2]) <= 800
\* floor of the exact product of an integer and the value <<k, d>>
FloorOfProduct(n, x) ==
    IF (n * x[1]) % 100 = 0 /\ x[2] < 0 /\ n > 0
    THEN (n * x[1]) \div 100 - 1
    ELSE (n * x[1]) \div 100

LapsesOf(state) == IF state = NoState THEN 0 ELSE state.lapses

\* a step of Spec in which record_review stored a review
ReviewRecorded == reviews' = reviews + 1
\* a step of Spec in which record_review was called, whatever came of it
ReviewCalled == clock' = clock /\ flashcardExists' = flashcardExists

\* C1: after any sequence of reviews with grades 0..4, starting with a
\* card's first review, the stored ease_factor lies in [1.3, 2.5].
EaseWithinBounds ==
    srs_state # NoState =>
        /\ ~FloatLess(srs_state.ease_factor, <<130, 0>>)
        /\ ~FloatLess(<<250, 0>>, srs_state.ease_factor)

\* a failing review has just left the ease at its floor
EaseAtFloor ==
    /\ srs_state # NoState
    /\ srs_state.ease_factor = MIN_EASE
    /\ lastCall.result = "recorded"
    /\ lastCall.grade < 3
    /\ srs_state.lapses >= 2

GuardsRejectWithoutChange ==
    [][ (/\ ReviewCalled
         /\ flashcardExists
         /\ srs_state # NoState
         /\ lastCall'.grade \in 0 .. 4
         /\ ~lastCall'.force)
        => /\ (srs_state.due_at > clock
                 => /\ lastCall'.result = "not_due"
                    /\ srs_state' = srs_state
                    /\ reviews' = reviews)
           /\ ((srs_state.due_at <= clock
                /\ clock - srs_state.last_reviewed_at < DEFAULT_COOLDOWN_SECONDS)
                 => /\ lastCall'.result = "cooldown"
                    /\ srs_state' = srs_state
                    /\ reviews' = reviews) ]_vars

\* a call was refused for the cooldown, 29 seconds after the last review
RefusedForCooldown ==
    /\ lastCall.result = "cooldown"
    /\ srs_state # NoState
    /\ clock - srs_state.last_reviewed_at = 29
    /\ srs_state.due_at <= clock

\* C4: a recorded review with grade >= 3 of a card that has SRS state: the
\* interval is 1 after 0 repetitions, 6 after 1, else floor(interval * ease);
\* grade 4 multiplies that by 1.2 (truncated) and raises the ease by 0.15,
\* grade 3 raises it by 0.1, capped at 2.5; repetitions + 1, lapses unchanged.
SuccessFollowsSm2 ==
    [][ (ReviewRecorded /\ srs_state # NoState /\ lastCall'.grade >= 3)
        => LET base == IF srs_state.repetitions = 0 THEN 1
                       ELSE IF srs_state.repetitions = 1 THEN 6
                       ELSE FloorOfProduct(srs_state.interval_days, srs_state.ease_factor)
               step == IF lastCall'.grade = 4 THEN 15 ELSE 10
           IN  /\ srs_state'.interval_days =
                    IF lastCall'.grade = 4 THEN (base * 12) \div 10 ELSE base
               /\ SameUpToRounding(srs_state'.ease_factor,
                     RealMin(RealPlus(srs_state.ease_factor, step), <<250, 0>>))
               /\ srs_state'.repetitions = srs_state.repetitions + 1
               /\ srs_state'.lapses = srs_state.lapses ]_vars

\* a perfect review of a card on a streak: the product of interval and ease
\* was taken, then the boost
StreakReviewedPerfect ==
    /\ srs_state # NoState
    /\ srs_state.repetitions >= 3
    /\ srs_state.interval_days >= 15
    /\ lastCall.result = "recorded"
    /\ lastCall.grade = 4

\* the row of the "repeated success" scenario
RepeatedSuccessRow ==
    [interval_days |-> 6, ease_factor |-> Decimal(200), repetitions |-> 1,
     lapses |-> 0, last_reviewed_at |-> 0, due_at |-> 6 * SECONDS_PER_DAY]

\* C5 as stated: grade 3 on {interval=6, ease=2.0, repetitions=1, lapses=0}
\* yields interval=12, ease=2.1, repetitions=2.
RepeatedSuccessGivesTwelve ==
    (fnOut # NoState /\ fnPrev = RepeatedSuccessRow /\ fnGrade = 3)
    => /\ fnOut.interval_days = 12
       /\ SameUpToRounding(fnOut.ease_factor, <<210, 0>>)
       /\ fnOut.repetitions = 2

\* C5 as amended: grade 3 on {interval=6, ease=2.0, repetitions=1, lapses=0}
\* yields interval=6 (the fixed second interval), ease=2.1, repetitions=2.
RepeatedSuccessGivesSix ==
    (fnOut # NoState /\ fnPrev = RepeatedSuccessRow /\ fnGrade = 3)
    => /\ fnOut.interval_days = 6
       /\ SameUpToRounding(fnOut.ease_factor, <<210, 0>>)
       /\ fnOut.repetitions = 2
       /\ fnOut.lapses = 0

\* the scenario of C5 has been run
RepeatedSuccessApplied ==
    fnOut # NoState /\ fnPrev = RepeatedSuccessRow /\ fnGrade = 3

\* the row of the "failure resets" scenario
FailureResetsRow ==
    [interval_days |-> 30, ease_factor |-> Decimal(230), repetitions |-> 5,
     lapses |-> 1, last_reviewed_at |-> 0, due_at |-> 30 * SECONDS_PER_DAY]

ActiveIngestionRuns(d) ==
    { i \in DOMAIN agent_runs :
        /\ agent_runs[i].agent_name = "ingestion"
        /\ agent_runs[i].status \in {"queued", "running"}
        /\ agent_runs[i].input.document_id = d }

\* C8: at any time a document has at most one ingestion run that is queued
\* or running, whatever the interleaving of the ingest requests for it.
AtMostOneActiveRun ==
    \A d \in Documents : Cardinality(ActiveIngestionRuns(d)) <= 1

\* what each sub-generator persists when nothing fails
Intended(g) ==
    CASE g = "summary" -> {"summary_text"}
      [] g = "flashcards" -> {"card"}
      [] g = "kg" -> {"concepts"} \cup {KgEdges[i] : i \in DOMAIN KgEdges}

OptionalStageOver == \A g \in SubGenerators : sub_pc[g] = "done"

OptionalFailuresNeverFailRun ==
    (<<"chunk", "completed">> \in steps /\ <<"embed", "completed">> \in steps) =>
        /\ node \in {"generate_optional_content", "update_status", "END"}
        /\ ingestion_state.error = NoError
        /\ (node = "END" => ingestion_state.status = "completed")

\* a run in which all three sub-generators failed has ended
AllOptionalFailedRunEnded ==
    /\ node = "END"
    /\ <<"embed", "completed">> \in steps
    /\ \A g \in SubGenerators : <<SubStep(g), "failed">> \in steps
    /\ ingestion_state.status = "completed"

(***************************************************************************)
(* One AgentRun row from its creation to the end of its execution, either  *)
(* by the background task (execute_agent_async, created queued) or by      *)
(* BaseAgent._execute_with_logging (created running).  Every write goes    *)
(* through _commit_and_refresh, whose commit or whose refresh may fail.    *)
(***************************************************************************)
MaxLogSteps == 3

NoStatus == "none"
NoStep == "none"
StepNames == {"chunk", "embed", "audit"}

\* how a _commit_and_refresh ends
DbOutcomes == {"ok", "commit_failed", "refresh_failed"}
Committed(o) == o # "commit_failed"
Raised(o) == o # "ok"

\* AgentRunService.update_status: the row the commit writes.  steps is a
\* plain JSONB column: assigning the list (when it was NULL) is written, the
\* in-place append to a list already loaded is not, and the refresh restores
\* the stored list.
UpdateStatusRow(row, status, step) ==
    [status |-> IF status # NoStatus THEN status ELSE row.status,
     steps |-> IF step # NoStep /\ row.steps_null THEN <<step>> ELSE row.steps,
     steps_null |-> row.steps_null /\ step = NoStep]

InitRun ==
    /\ IdleSrs
    /\ IdleFn
    /\ IdleApi
    /\ IdleIng
    /\ IdlePref
    /\ IdleRelated
    /\ IdleEdgePrep
    /\ IdleConcept
    /\ IdleReingest
    /\ IdleReviewRace
    /\ IdleIngOut
    /\ IdlePipe
    /\ IdleCard
    /\ IdlePrep
    /\ IdleRace
    /\ IdleGraph
    /\ IdleChat
    /\ IdleChunk
    /\ IdleEdge
    /\ run_row = NoState
    /\ run_pc = "new"
    /\ run_sync \in BOOLEAN
    /\ run_logged = 0

\* create_run, from the endpoint (queued) or from _log_run_start (running)
CreateRunRow(o) ==
    /\ run_pc = "new"
    /\ run_row' = IF Committed(o)
                  THEN [status |-> IF run_sync THEN "running" ELSE "queued",
                        steps |-> <<>>, steps_null |-> TRUE]
                  ELSE run_row
    /\ run_pc' = IF Raised(o) THEN "done"
                 ELSE IF run_sync THEN "executing" ELSE "queued"
    /\ UNCHANGED <<run_sync, run_logged, exceptRun>>

\* execute_agent_async: update_status(run_id, "running")
StartExecution(o) ==
    /\ run_pc = "queued"
    /\ run_row' = IF Committed(o) THEN UpdateStatusRow(run_row, "running", NoStep)
                  ELSE run_row
    /\ run_pc' = IF Raised(o) THEN "failing" ELSE "executing"
    /\ UNCHANGED <<run_sync, run_logged, exceptRun>>

\* ingestion_graph._log_step -> log_step -> update_status(run_id, None, step):
\* a run that does not know its id returns at once (_get_run_id finds
\* _current_run_id only under _execute_with_logging), and what the call
\* raises is swallowed with a warning
LogStep(step, o) ==
    /\ run_pc = "executing"
    /\ run_logged < MaxLogSteps
    /\ run_row' = IF run_sync /\ Committed(o)
                  THEN UpdateStatusRow(run_row, NoStatus, step)
                  ELSE run_row
    /\ run_logged' = IF run_sync /\ Raised(o)
                     THEN run_logged
                     ELSE run_logged + 1
    /\ UNCHANGED <<run_pc, run_sync, exceptRun>>

\* the agent returns its output or raises
AgentReturns(ok) ==
    /\ run_pc = "executing"
    /\ run_pc' = IF ok THEN "completing" ELSE "failing"
    /\ UNCHANGED <<run_row, run_sync, run_logged, exceptRun>>

\* update_status(run_id, "succeeded", output), inside the try
CompleteRun(o) ==
    /\ run_pc = "completing"
    /\ run_row' = IF Committed(o) THEN UpdateStatusRow(run_row, "succeeded", NoStep)
                  ELSE run_row
    /\ run_pc' = IF Raised(o) THEN "failing" ELSE "done"
    /\ UNCHANGED <<run_sync, run_logged, exceptRun>>

\* the except branch: update_status(run_id, "failed", error), then raise
FailRun(o) ==
    /\ run_pc = "failing"
    /\ run_row' = IF Committed(o) THEN UpdateStatusRow(run_row, "failed", NoStep)
                  ELSE run_row
    /\ run_pc' = "done"
    /\ UNCHANGED <<run_sync, run_logged, exceptRun>>

NextRun ==
    \/ \E o \in DbOutcomes : CreateRunRow(o)
    \/ \E o \in DbOutcomes : StartExecution(o)
    \/ \E step \in StepNames, o \in DbOutcomes : LogStep(step, o)
    \/ \E ok \in BOOLEAN : AgentReturns(ok)
    \/ \E o \in DbOutcomes : CompleteRun(o)
    \/ \E o \in DbOutcomes : FailRun(o)

SpecRun == InitRun /\ [][NextRun]_vars

(***************************************************************************)
(* Properties of the AgentRun row.                                         *)
(***************************************************************************)
StatusRank(status) ==
    CASE status = "queued" -> 0
      [] status = "running" -> 1
      [] status \in {"succeeded", "failed"} -> 2

IsPrefix(a, b) == Len(a) <= Len(b) /\ SubSeq(b, 1, Len(a)) = a

\* C11: every change of an AgentRun row moves its status strictly forward
\* along queued -> running -> succeeded | failed or leaves it alone, and
\* leaves the steps already stored as a prefix of the stored steps.
RunOnlyMovesForward ==
    [][(run_row # NoState /\ run_row' # NoState) =>
          /\ \/ run_row'.status = run_row.status
             \/ StatusRank(run_row.status) < StatusRank(run_row'.status)
          /\ IsPrefix(run_row.steps, run_row'.steps)]_vars

(***************************************************************************)
(* One run of the flashcard agent or of the KG extraction agent: the       *)
(* LangGraph pipeline node by node, then what _run_internal makes of the   *)
(* final state.  Lists are modelled by their lengths.                      *)
(***************************************************************************)
MaxChunks == 2
MaxCards == 2

Graphs == {"flashcard", "kg_extraction"}
Errors == {"timeout", "connection refused"}

\* FlashcardAgent._run_internal / KGExtractionAgent._run_internal: the state
\* the graph is invoked with
InitialGraphState ==
    [search_results |-> 0, llm_response |-> 0, cards |-> 0,
     validated_cards |-> 0, dropped_cards |-> 0, flashcards |-> 0,
     preview |-> 0, concepts_data |-> 0, created_concepts |-> 0,
     edges_data |-> 0, created_edges |-> 0, extracted_concepts |-> 0,
     extracted_edges |-> 0, error |-> NoError, status |-> "pending"]

\* flashcard_graph._generate_flashcards, except branch:
\* {**state, "error": str(e), "status": "generating"}
GenerateFailed(st, error) ==
    [st EXCEPT !.error = error, !.status = "generating"]

ShouldContinueAfterRetrieveEmptyFirst(st) ==
    IF st.search_results = 0 THEN "empty"
    ELSE IF st.error # NoError THEN "error"
    ELSE "continue"
ShouldContinueAfterRetrieve(st) ==
    IF st.error # NoError THEN "error"
    ELSE IF st.search_results = 0 THEN "empty"
    ELSE "continue"

ShouldContinueAfterValidate(st) ==
    IF st.error # NoError THEN "error"
    ELSE IF st.validated_cards = 0 THEN "insufficient"
    ELSE IF st.validated_cards < 1 THEN "insufficient"
    ELSE "continue"

\* the nodes that have conditional edges, and the ones whose router is told
\* to go on whatever the label
RouterNodes(g) ==
    IF g = "flashcard"
    THEN {"retrieve_chunks", "generate_flashcards", "validate_cards"}
    ELSE {"retrieve_chunks", "extract_kg", "upsert_concepts", "upsert_edges",
          "find_related_concepts"}

BestEffortNodes(g) ==
    IF g = "flashcard" THEN {} ELSE {"find_related_concepts"}

\* the router function given to add_conditional_edges for a node
Router(g, from, st) ==
    CASE from = "retrieve_chunks" -> ShouldContinueAfterRetrieve(st)
      [] g = "flashcard" /\ from = "validate_cards" ->
            ShouldContinueAfterValidate(st)
      [] OTHER -> ShouldContinue(st)

\* build_flashcard_graph: the node an edge leads to
FlashcardEdge(from, label) ==
    CASE from = "retrieve_chunks" ->
            (CASE label = "continue" -> "generate_flashcards"
               [] label = "empty" -> "END"
               [] label = "error" -> "handle_error")
      [] from = "generate_flashcards" ->
            IF label = "continue" THEN "validate_cards" ELSE "handle_error"
      [] from = "validate_cards" ->
            (CASE label = "continue" -> "create_flashcards"
               [] label = "insufficient" -> "END"
               [] label = "error" -> "handle_error")
      [] from = "create_flashcards" -> "build_preview"
      [] from = "build_preview" -> "END"
      [] from = "handle_error" -> "END"

\* build_kg_extraction_graph: the node an edge leads to
KgEdge(from, label) ==
    CASE from = "retrieve_chunks" ->
            (CASE label = "continue" -> "extract_kg"
               [] label = "empty" -> "END"
               [] label = "error" -> "handle_error")
      [] from = "extract_kg" ->
            IF label = "continue" THEN "prepare_concepts" ELSE "handle_error"
      [] from = "prepare_concepts" -> "upsert_concepts"
      [] from = "upsert_concepts" ->
            IF label = "continue" THEN "build_name_mapping" ELSE "handle_error"
      [] from = "build_name_mapping" -> "prepare_edges"
      [] from = "prepare_edges" -> "upsert_edges"
      [] from = "upsert_edges" ->
            IF label = "continue" THEN "find_related_concepts"
            ELSE "handle_error"
      [] from = "find_related_concepts" -> "build_output"
      [] from = "build_output" -> "END"
      [] from = "handle_error" -> "END"

\* where the compiled graph goes after a node returned st
Target(g, from, st) ==
    LET label == IF from \in RouterNodes(g) THEN Router(g, from, st)
                 ELSE "continue"
    IN  IF g = "flashcard" THEN FlashcardEdge(from, label)
        ELSE KgEdge(from, label)

\* FlashcardAgent._run_internal after ainvoke
FlashcardRunInternal(st) ==
    IF st.search_results = 0
    THEN [raised |-> FALSE, error |-> NoError, reason |-> "no_content",
          written |-> 0, edges_written |-> 0]
    ELSE IF st.validated_cards = 0
    THEN [raised |-> FALSE, error |-> NoError,
          reason |-> "insufficient_content", written |-> 0,
          edges_written |-> 0]
    ELSE IF st.error # NoError \/ st.status = "failed"
    THEN [raised |-> TRUE, error |-> st.error, reason |-> "none",
          written |-> 0, edges_written |-> 0]
    ELSE [raised |-> FALSE, error |-> NoError, reason |-> "none",
          written |-> st.flashcards, edges_written |-> 0]

\* KGExtractionAgent._run_internal after ainvoke
KgRunInternal(st) ==
    IF st.search_results = 0
    THEN [raised |-> FALSE, error |-> NoError, reason |-> "none",
          written |-> 0, edges_written |-> 0]
    ELSE IF st.error # NoError \/ st.status = "failed"
    THEN [raised |-> TRUE, error |-> st.error, reason |-> "none",
          written |-> 0, edges_written |-> 0]
    ELSE [raised |-> FALSE, error |-> NoError, reason |-> "none",
          written |-> st.extracted_concepts,
          edges_written |-> st.extracted_edges]

InitGraph ==
    /\ IdleSrs
    /\ IdleFn
    /\ IdleApi
    /\ IdleIng
    /\ IdlePref
    /\ IdleRelated
    /\ IdleEdgePrep
    /\ IdleConcept
    /\ IdleReingest
    /\ IdleReviewRace
    /\ IdleIngOut
    /\ IdlePipe
    /\ IdleCard
    /\ IdlePrep
    /\ IdleRace
    /\ IdleRun
    /\ IdleChat
    /\ IdleChunk
    /\ IdleEdge
    /\ graph \in Graphs
    /\ graph_node = "retrieve_chunks"
    /\ graph_state = InitialGraphState
    /\ graph_failure = NoError
    /\ agent_result = NoState

\* a node returned new_state: the graph moves along the node's edge
Goto(from, new_state) ==
    /\ graph_state' = new_state
    /\ graph_node' = Target(graph, from, new_state)
    /\ UNCHANGED <<graph, agent_result, exceptGraph>>

\* a node's collaborator raised e and the node returned new_state
Caught(from, e, new_state) ==
    /\ graph_failure' = e
    /\ Goto(from, new_state)

\* _retrieve_chunks of either graph: semantic search (and, for flashcards,
\* the fallback query), all inside the try
RetrieveChunks ==
    /\ graph_node = "retrieve_chunks"
    /\ \/ \E n \in 0..MaxChunks :
            /\ Goto("retrieve_chunks",
                    [graph_state EXCEPT !.search_results = n,
                                        !.status = "retrieving"])
            /\ UNCHANGED graph_failure
       \/ \E e \in Errors :
            Caught("retrieve_chunks", e, Failed(graph_state, e))

\* flashcard_graph._generate_flashcards: the structured LLM call
GenerateFlashcardCards ==
    /\ graph = "flashcard"
    /\ graph_node = "generate_flashcards"
    /\ \/ \E n \in 0..MaxCards :
            /\ Goto("generate_flashcards",
                    [graph_state EXCEPT !.llm_response = n, !.cards = n,
                                        !.status = "generating"])
            /\ UNCHANGED graph_failure
       \/ \E e \in Errors :
            Caught("generate_flashcards", e, GenerateFailed(graph_state, e))

\* flashcard_graph._validate_cards: some of the cards pass _validate_card
ValidateCards ==
    /\ graph = "flashcard"
    /\ graph_node = "validate_cards"
    /\ \E n \in 0..graph_state.cards :
            Goto("validate_cards",
                 [graph_state EXCEPT !.validated_cards = n,
                                     !.dropped_cards = graph_state.cards - n,
                                     !.cards = n,
                                     !.status = "validating"])
    /\ UNCHANGED graph_failure

\* flashcard_graph._create_flashcards: create_flashcards_from_text
CreateFlashcardRows ==
    /\ graph = "flashcard"
    /\ graph_node = "create_flashcards"
    /\ \/ /\ Goto("create_flashcards",
                  [graph_state EXCEPT
                      !.flashcards = graph_state.validated_cards,
                      !.status = "creating"])
          /\ UNCHANGED graph_failure
       \/ \E e \in Errors :
            Caught("create_flashcards", e, Failed(graph_state, e))

\* flashcard_graph._build_preview: the first five validated cards
BuildPreview ==
    /\ graph = "flashcard"
    /\ graph_node = "build_preview"
    /\ Goto("build_preview",
            [graph_state EXCEPT
                !.preview = IF graph_state.validated_cards < 5
                            THEN graph_state.validated_cards ELSE 5,
                !.status = "completed"])
    /\ UNCHANGED graph_failure

\* kg_graph._extract_kg: the structured LLM call
ExtractKg ==
    /\ graph = "kg_extraction"
    /\ graph_node = "extract_kg"
    /\ \/ \E n \in 0..MaxCards :
            /\ Goto("extract_kg",
                    [graph_state EXCEPT !.llm_response = n,
                                        !.status = "extracting"])
            /\ UNCHANGED graph_failure
       \/ \E e \in Errors :
            Caught("extract_kg", e, Failed(graph_state, e))

\* kg_graph._prepare_concepts: the concepts confident enough, at most
\* MAX_CONCEPTS_PER_DOCUMENT of them
PrepareConcepts ==
    /\ graph = "kg_extraction"
    /\ graph_node = "prepare_concepts"
    /\ \E n \in 0..graph_state.llm_response :
            Goto("prepare_concepts", [graph_state EXCEPT !.concepts_data = n])
    /\ UNCHANGED graph_failure

\* kg_graph._upsert_concepts
UpsertGraphConcepts ==
    /\ graph = "kg_extraction"
    /\ graph_node = "upsert_concepts"
    /\ \/ /\ Goto("upsert_concepts",
                  [graph_state EXCEPT
                      !.created_concepts = graph_state.concepts_data,
                      !.status = "upserting_concepts"])
          /\ UNCHANGED graph_failure
       \/ \E e \in Errors :
            Caught("upsert_concepts", e, Failed(graph_state, e))

\* kg_graph._build_name_mapping
BuildGraphNameMapping ==
    /\ graph = "kg_extraction"
    /\ graph_node = "build_name_mapping"
    /\ Goto("build_name_mapping", graph_state)
    /\ UNCHANGED graph_failure

\* kg_graph._prepare_edges: the edges whose two concepts were created
PrepareEdges ==
    /\ graph = "kg_extraction"
    /\ graph_node = "prepare_edges"
    /\ \E n \in 0..(IF graph_state.created_concepts = 0 THEN 0
                    ELSE graph_state.llm_response) :
            Goto("prepare_edges", [graph_state EXCEPT !.edges_data = n])
    /\ UNCHANGED graph_failure

\* kg_graph._upsert_edges
UpsertGraphEdges ==
    /\ graph = "kg_extraction"
    /\ graph_node = "upsert_edges"
    /\ \/ /\ Goto("upsert_edges",
                  [graph_state EXCEPT
                      !.created_edges = graph_state.edges_data,
                      !.status = "upserting_edges"])
          /\ UNCHANGED graph_failure
       \/ \E e \in Errors :
            Caught("upsert_edges", e, Failed(graph_state, e))

\* kg_graph._find_related_concepts: whatever it raises is logged, and the
\* state it returns carries no error
FindRelatedConcepts ==
    /\ graph = "kg_extraction"
    /\ graph_node = "find_related_concepts"
    /\ Goto("find_related_concepts",
            [graph_state EXCEPT !.status = "finding_relations"])
    /\ UNCHANGED graph_failure

\* kg_graph._build_output
BuildGraphOutput ==
    /\ graph = "kg_extraction"
    /\ graph_node = "build_output"
    /\ Goto("build_output",
            [graph_state EXCEPT
                !.extracted_concepts = graph_state.created_concepts,
                !.extracted_edges = graph_state.created_edges,
                !.status = "completed"])
    /\ UNCHANGED graph_failure

\* _handle_error of either graph: return state
HandleGraphError ==
    /\ graph_node = "handle_error"
    /\ Goto("handle_error", graph_state)
    /\ UNCHANGED graph_failure

\* _run_internal once ainvoke returned the final state
RunInternal ==
    /\ graph_node = "END"
    /\ agent_result' = IF graph = "flashcard"
                       THEN FlashcardRunInternal(graph_state)
                       ELSE KgRunInternal(graph_state)
    /\ graph_node' = "RETURNED"
    /\ UNCHANGED <<graph, graph_state, graph_failure, exceptGraph>>

NextGraph ==
    \/ RetrieveChunks
    \/ GenerateFlashcardCards
    \/ ValidateCards
    \/ CreateFlashcardRows
    \/ BuildPreview
    \/ ExtractKg
    \/ PrepareConcepts
    \/ UpsertGraphConcepts
    \/ BuildGraphNameMapping
    \/ PrepareEdges
    \/ UpsertGraphEdges
    \/ FindRelatedConcepts
    \/ BuildGraphOutput
    \/ HandleGraphError
    \/ RunInternal

SpecGraph == InitGraph /\ [][NextGraph]_vars

(***************************************************************************)
(* Properties of the agents' pipelines.                                    *)
(***************************************************************************)
\* C12: in the flashcard and KG pipelines, a state in which a node has
\* recorded a collaborator's failure carries the failure's message as error
\* and the status "failed" when the node hands it on.
CaughtFailureMarksFailed ==
    [][(graph_failure = NoError /\ graph_failure' # NoError) =>
          /\ graph_state'.error = graph_failure'
          /\ graph_state'.status = "failed"]_vars

CollaboratorFailureFailsRun ==
    (agent_result # NoState /\ graph_failure # NoError) =>
        /\ agent_result.raised
        /\ agent_result.error = graph_failure

(***************************************************************************)
(* One run of the study chat agent.  Chunk ids are strings; a search       *)
(* result carries the id as the vector store returned it, the graph keeps  *)
(* str(uuid.UUID(id)).  Confidence scores are counted in tenths.           *)
(***************************************************************************)
MaxCitations == 2

RawChunkIds == {"c1", "C1", "c2"}
\* str(uuid.UUID(raw)): the lower-case form of the id
Canonical(raw) == IF raw = "C1" THEN "c1" ELSE raw
\* what the model may put in a citation: any id it has seen, or one it made up
CitableIds == RawChunkIds \cup {"h1"}

BoundedSeq(S, n) == UNION {[1..k -> S] : k \in 0..n}
SeqRange(seq) == {seq[i] : i \in 1..Len(seq)}

RetryAnswer == "I'm sorry, I encountered an error processing your request."
NoContextAnswer == "I don't have enough context in your workspace yet."

\* ChatResponse as the structured LLM call may return it
LlmResponses ==
    [answer : {"grounded answer"},
     citations : BoundedSeq(CitableIds, MaxCitations),
     confidence_score : {NoInt, 2, 9},
     insufficient_info : BOOLEAN]

\* f"Search failed: {str(e)}" and f"LLM generation failed: {str(e)}"
SearchFailedMessage(e) ==
    IF e = "timeout" THEN "Search failed: timeout"
    ELSE "Search failed: connection refused"
GenerationFailedMessage(e) ==
    IF e = "timeout" THEN "LLM generation failed: timeout"
    ELSE "LLM generation failed: connection refused"

\* StudyChatAgent._run_internal: the state the graph is invoked with
InitialChatState(previous_messages) ==
    [previous_messages |-> previous_messages, reformulated_query |-> "",
     search_results |-> <<>>, retrieved_chunk_ids |-> <<>>,
     chunk_id_to_citation |-> <<>>, llm_response |-> NoState,
     valid_citations |-> <<>>, confidence_score |-> 0,
     insufficient_info |-> FALSE, answer |-> "", error |-> NoError,
     status |-> "pending"]

\* _search_chunks: the ids of the results, each once, in order
RECURSIVE RetrievedChunkIds(_)
RetrievedChunkIds(results) ==
    IF results = <<>> THEN <<>>
    ELSE LET front == RetrievedChunkIds(SubSeq(results, 1, Len(results) - 1))
             chunk_id_str == Canonical(results[Len(results)])
         IN  IF chunk_id_str \in SeqRange(front) THEN front
             ELSE Append(front, chunk_id_str)

\* _search_chunks: chunk_id_to_citation
ChunkIdToCitation(results) ==
    [chunk_id_str \in {Canonical(results[i]) : i \in 1..Len(results)} |->
        [chunk_id |-> chunk_id_str]]

ShouldContinueAfterSearchNeverEmpty(st) ==
    IF st.error # NoError \/ st.status = "failed" THEN "error"
    ELSE "continue"
ShouldContinueAfterSearch(st) ==
    IF st.error # NoError \/ st.status = "failed" THEN "error"
    ELSE IF st.search_results = <<>> THEN "empty"
    ELSE "continue"

ChatShouldContinue(st) ==
    IF st.error # NoError \/ st.status = "failed" THEN "error" ELSE "continue"

\* build_study_chat_graph: the node an edge leads to
ChatEdge(from, label) ==
    CASE from = "reformulate_query" -> "search_chunks"
      [] from = "search_chunks" ->
            (CASE label = "continue" -> "generate_answer"
               [] label = "empty" -> "build_output"
               [] label = "error" -> "handle_error")
      [] from = "generate_answer" ->
            IF label = "continue" THEN "validate_citations"
            ELSE "handle_error"
      [] from = "validate_citations" -> "build_output"
      [] from = "build_output" -> "END"
      [] from = "handle_error" -> "END"

ChatTarget(from, st) ==
    ChatEdge(from,
             CASE from = "search_chunks" -> ShouldContinueAfterSearch(st)
               [] from = "generate_answer" -> ChatShouldContinue(st)
               [] OTHER -> "continue")

\* _validate_citations: the citations kept, as Citation objects
ValidCitationsUnfiltered(cited, retrieved_chunk_ids, lookup) ==
    [i \in 1..Len(cited) |-> [chunk_id |-> cited[i]]]
ValidCitations(cited, retrieved_chunk_ids, lookup) ==
    LET retrieved_chunk_ids_set == SeqRange(retrieved_chunk_ids)
        kept == SelectSeq(cited, LAMBDA c : c \in retrieved_chunk_ids_set)
    IN  [i \in 1..Len(kept) |-> lookup[kept[i]]]

\* _validate_citations: the model's score, or the heuristic
ConfidenceScore(llm_response, valid_citations, results) ==
    IF llm_response.confidence_score # NoInt
    THEN llm_response.confidence_score
    ELSE IF Len(valid_citations) = 0 THEN 0
    ELSE IF 2 * Len(valid_citations) >= Len(results) THEN 8
    ELSE IF Len(valid_citations) > 0 THEN 6
    ELSE 3

\* _validate_citations
ValidatedState(st) ==
    IF st.llm_response = NoState
    THEN [st EXCEPT !.valid_citations = <<>>, !.status = "validating"]
    ELSE LET valid == ValidCitations(st.llm_response.citations,
                                     st.retrieved_chunk_ids,
                                     st.chunk_id_to_citation)
             confidence == ConfidenceScore(st.llm_response, valid,
                                           st.search_results)
         IN  [st EXCEPT !.valid_citations = valid,
                        !.confidence_score = confidence,
                        !.insufficient_info =
                            st.llm_response.insufficient_info \/ confidence < 4,
                        !.answer = st.llm_response.answer,
                        !.status = "validating"]

\* _build_output
BuiltOutputState(st) ==
    IF st.search_results = <<>>
    THEN [st EXCEPT !.answer = NoContextAnswer, !.valid_citations = <<>>,
                    !.confidence_score = 0, !.insufficient_info = TRUE,
                    !.status = "completed"]
    ELSE [st EXCEPT !.status = "completed"]

\* _handle_error
HandledErrorStateLeaks(st) ==
    [st EXCEPT !.answer = st.error, !.valid_citations = <<>>,
               !.confidence_score = 0, !.insufficient_info = TRUE,
               !.status = "failed"]
HandledErrorState(st) ==
    [st EXCEPT !.answer = RetryAnswer, !.valid_citations = <<>>,
               !.confidence_score = 0, !.insufficient_info = TRUE,
               !.status = "failed"]

\* StudyChatAgent._run_internal: the output built from the final state
StudyChatOutput(st) ==
    [answer |-> st.answer, citations |-> st.valid_citations,
     confidence_score |-> st.confidence_score,
     insufficient_info |-> st.insufficient_info]

InitChat ==
    /\ IdleSrs
    /\ IdleFn
    /\ IdleApi
    /\ IdleIng
    /\ IdlePref
    /\ IdleRelated
    /\ IdleEdgePrep
    /\ IdleConcept
    /\ IdleReingest
    /\ IdleReviewRace
    /\ IdleIngOut
    /\ IdlePipe
    /\ IdleCard
    /\ IdlePrep
    /\ IdleRace
    /\ IdleRun
    /\ IdleGraph
    /\ IdleChunk
    /\ IdleEdge
    /\ chat_node = "reformulate_query"
    /\ \E previous_messages \in BOOLEAN :
            chat_state = InitialChatState(previous_messages)
    /\ chat_failure = NoError
    /\ chat_visited = {}
    /\ chat_output = NoState

\* a node returned new_state: the graph moves along the node's edge
ChatGoto(from, new_state) ==
    /\ chat_node = from
    /\ chat_state' = new_state
    /\ chat_node' = ChatTarget(from, new_state)
    /\ chat_visited' = chat_visited \cup {from}
    /\ UNCHANGED <<chat_output, exceptChat>>

\* _reformulate_query: the LLM is asked only when there is a history, and its
\* failure falls back to the original message
ReformulateQuery ==
    /\ \E reformulated \in BOOLEAN :
          /\ reformulated => chat_state.previous_messages
          /\ ChatGoto("reformulate_query",
                      [chat_state EXCEPT
                          !.reformulated_query =
                              IF reformulated THEN "reformulated"
                              ELSE "message",
                          !.status = "reformulating"])
    /\ UNCHANGED chat_failure

\* _search_chunks
SearchChunks ==
    \/ /\ \E results \in BoundedSeq(RawChunkIds, MaxChunks) :
            ChatGoto("search_chunks",
                     IF results = <<>>
                     THEN [chat_state EXCEPT !.search_results = <<>>,
                                             !.status = "searching"]
                     ELSE [chat_state EXCEPT
                              !.search_results = results,
                              !.retrieved_chunk_ids =
                                  RetrievedChunkIds(results),
                              !.chunk_id_to_citation =
                                  ChunkIdToCitation(results),
                              !.status = "searching"])
       /\ UNCHANGED chat_failure
    \/ \E e \in Errors :
          /\ ChatGoto("search_chunks",
                      [chat_state EXCEPT !.error = SearchFailedMessage(e),
                                         !.status = "failed"])
          /\ chat_failure' = e

\* _generate_answer
GenerateAnswer ==
    \/ /\ \E response \in LlmResponses :
            ChatGoto("generate_answer",
                     [chat_state EXCEPT !.llm_response = response,
                                        !.status = "generating"])
       /\ UNCHANGED chat_failure
    \/ \E e \in Errors :
          /\ ChatGoto("generate_answer",
                      [chat_state EXCEPT
                          !.error = GenerationFailedMessage(e),
                          !.status = "failed"])
          /\ chat_failure' = e

ValidateCitations ==
    /\ ChatGoto("validate_citations", ValidatedState(chat_state))
    /\ UNCHANGED chat_failure

BuildOutput ==
    /\ ChatGoto("build_output", BuiltOutputState(chat_state))
    /\ UNCHANGED chat_failure

HandleChatError ==
    /\ ChatGoto("handle_error", HandledErrorState(chat_state))
    /\ UNCHANGED chat_failure

\* _run_internal once ainvoke returned: errors are logged, the output is
\* built from the final state either way
StudyChatRunInternal ==
    /\ chat_node = "END"
    /\ chat_output' = StudyChatOutput(chat_state)
    /\ chat_node' = "RETURNED"
    /\ UNCHANGED <<chat_state, chat_failure, chat_visited, exceptChat>>

NextChat ==
    \/ ReformulateQuery
    \/ SearchChunks
    \/ GenerateAnswer
    \/ ValidateCitations
    \/ BuildOutput
    \/ HandleChatError
    \/ StudyChatRunInternal

SpecChat == InitChat /\ [][NextChat]_vars

(***************************************************************************)
(* Properties of the study chat.                                           *)
(***************************************************************************)
\* the chunk ids of the run's retrieved set
RetrievedSet ==
    {Canonical(chat_state.search_results[i]) :
        i \in 1..Len(chat_state.search_results)}

\* C15: every citation of a study chat output carries the id of a chunk the
\* run retrieved.
CitationsAreRetrieved ==
    chat_output # NoState =>
        \A i \in 1..Len(chat_output.citations) :
            chat_output.citations[i].chunk_id \in RetrievedSet

\* the model cited an id that was not retrieved next to one that was, and
\* the output keeps a citation
HallucinatedCitationDropped ==
    /\ chat_output # NoState
    /\ chat_state.llm_response # NoState
    /\ SeqRange(chat_state.llm_response.citations) \ RetrievedSet # {}
    /\ Len(chat_output.citations) = 1

\* what the user gets when the run failed
FailureOutput ==
    [answer |-> RetryAnswer, citations |-> <<>>, confidence_score |-> 0,
     insufficient_info |-> TRUE]

\* C16: the output of a failed study chat run is one fixed output, the retry
\* message with no citation, whichever collaborator failed and whatever its
\* error was.
FailureAnswerIsFixed ==
    (chat_output # NoState /\ chat_failure # NoError) =>
        chat_output = FailureOutput

\* the LLM call failed after a successful search, and the run answered
GenerationFailedAnswered ==
    /\ chat_output # NoState
    /\ chat_failure = "connection refused"
    /\ chat_state.error = GenerationFailedMessage("connection refused")
    /\ chat_state.search_results # <<>>

\* C17: a run whose search succeeded with zero chunks never runs
\* generate_answer and ends completed, without error, with the fixed
\* not-enough-context answer, no citations, confidence 0.0 and
\* insufficient_info true.
EmptyRetrievalAnswersGracefully ==
    (chat_output # NoState /\ chat_failure = NoError
        /\ chat_state.search_results = <<>>) =>
        /\ "generate_answer" \notin chat_visited
        /\ chat_state.status = "completed"
        /\ chat_state.error = NoError
        /\ chat_output = [answer |-> NoContextAnswer, citations |-> <<>>,
                          confidence_score |-> 0, insufficient_info |-> TRUE]

\* the search returned nothing and the run answered
EmptyRetrievalAnswered ==
    /\ chat_output # NoState
    /\ chat_failure = NoError
    /\ chat_state.search_results = <<>>
    /\ "search_chunks" \in chat_visited

(***************************************************************************)
(* ChunkingService._recursive_chunk, one loop iteration per step.          *)
(***************************************************************************)
MaxTextLength == 6
MaxChunkSize == 4

Characters == {"a", "b"}

\* min(start + chunk_size, text_length)
Min(a, b) == IF a < b THEN a ELSE b

\* text[from:to]
Slice(t, from, to) == SubSeq(t, from + 1, to)

\* max_iterations = (text_length // step_size) + 10
MaxIterationsWithoutSlack(text_length, step_size) == text_length \div step_size
MaxIterations(text_length, step_size) == (text_length \div step_size) + 10

\* next_start = end - overlap
NextStartPastEnd(end_char, o) == end_char - o + 1
NextStart(end_char, o) == end_char - o

InitChunk ==
    /\ IdleSrs
    /\ IdleFn
    /\ IdleApi
    /\ IdleIng
    /\ IdlePref
    /\ IdleRelated
    /\ IdleEdgePrep
    /\ IdleConcept
    /\ IdleReingest
    /\ IdleReviewRace
    /\ IdleIngOut
    /\ IdlePipe
    /\ IdleCard
    /\ IdlePrep
    /\ IdleRace
    /\ IdleRun
    /\ IdleGraph
    /\ IdleChat
    /\ IdleEdge
    /\ text \in BoundedSeq(Characters, MaxTextLength)
    /\ chunk_size \in 1..MaxChunkSize
    /\ overlap \in 0..MaxChunkSize
    /\ start = 0
    /\ iteration = 0
    /\ chunks = <<>>
    /\ chunk_pc = "entry"

\* the check made before the loop
CheckOverlap ==
    /\ chunk_pc = "entry"
    /\ chunk_pc' = IF overlap >= chunk_size THEN "raised_overlap" ELSE "loop"
    /\ UNCHANGED <<text, chunk_size, overlap, start, iteration, chunks,
                   exceptChunk>>

\* one pass through the body of `while start < text_length`
LoopBody ==
    /\ chunk_pc = "loop"
    /\ start < Len(text)
    /\ iteration' = iteration + 1
    /\ IF iteration' > MaxIterations(Len(text), chunk_size - overlap)
       THEN /\ chunk_pc' = "raised_max_iterations"
            /\ UNCHANGED <<start, chunks>>
       ELSE LET end_char == Min(start + chunk_size, Len(text))
                next_start == NextStart(end_char, overlap)
            IN  /\ chunks' = Append(chunks,
                                    <<start, end_char,
                                      Slice(text, start, end_char)>>)
                /\ IF next_start <= start
                   THEN /\ chunk_pc' = "returned"
                        /\ UNCHANGED start
                   ELSE /\ start' = next_start
                        /\ UNCHANGED chunk_pc
    /\ UNCHANGED <<text, chunk_size, overlap, exceptChunk>>

\* the loop condition fails: return chunks
LoopExit ==
    /\ chunk_pc = "loop"
    /\ ~(start < Len(text))
    /\ chunk_pc' = "returned"
    /\ UNCHANGED <<text, chunk_size, overlap, start, iteration, chunks,
                   exceptChunk>>

NextChunk ==
    \/ CheckOverlap
    \/ LoopBody
    \/ LoopExit

SpecChunk == InitChunk /\ [][NextChunk]_vars

(***************************************************************************)
(* Properties of the chunking.                                             *)
(***************************************************************************)
\* the first window whole, then every later window without its first
\* `overlap` characters
RECURSIVE NonOverlappingParts(_)
NonOverlappingParts(windows) ==
    IF windows = <<>> THEN <<>>
    ELSE IF Len(windows) = 1 THEN windows[1][3]
    ELSE LET last == windows[Len(windows)][3]
         IN  NonOverlappingParts(SubSeq(windows, 1, Len(windows) - 1))
                \o SubSeq(last, overlap + 1, Len(last))

\* C18: for 0 <= overlap < chunk_size the windows returned hold the text
\* between their offsets, start at 0, end at len(text), each next window
\* starts exactly `overlap` characters before the end of the one before it,
\* and the non-overlapping parts concatenated give the text back.
WindowsCoverText ==
    (chunk_pc = "returned" /\ 0 <= overlap /\ overlap < chunk_size) =>
        /\ (text = <<>>) = (chunks = <<>>)
        /\ text # <<>> =>
              /\ chunks[1][1] = 0
              /\ chunks[Len(chunks)][2] = Len(text)
        /\ \A i \in 1..Len(chunks) :
              /\ chunks[i][1] < chunks[i][2]
              /\ chunks[i][3] = Slice(text, chunks[i][1], chunks[i][2])
        /\ \A i \in 1..(Len(chunks) - 1) :
              /\ chunks[i][2] - chunks[i + 1][1] = overlap
              /\ chunks[i + 1][2] >= chunks[i][2]
        /\ NonOverlappingParts(chunks) = text

\* a text cut into three windows or more with a real overlap, the last one
\* shorter than chunk_size
ThreeOverlappingWindows ==
    /\ chunk_pc = "returned"
    /\ overlap > 0
    /\ overlap < chunk_size
    /\ Len(chunks) >= 3
    /\ chunks[Len(chunks)][2] - chunks[Len(chunks)][1] < chunk_size

\* C19: overlap >= chunk_size raises the configuration error with no window
\* produced; with 0 <= overlap < chunk_size neither error is raised and the
\* loop body runs at most len(text) div (chunk_size - overlap) + 2 times.
ChunkingTerminates ==
    /\ overlap >= chunk_size =>
          /\ chunk_pc \in {"entry", "raised_overlap"}
          /\ chunks = <<>>
          /\ iteration = 0
    /\ (0 <= overlap /\ overlap < chunk_size) =>
          /\ chunk_pc \in {"entry", "loop", "returned"}
          /\ iteration <= (Len(text) \div (chunk_size - overlap)) + 2

\* a call that returned after exactly len(text) div step + 2 iterations
ReturnedAtTheBound ==
    /\ chunk_pc = "returned"
    /\ overlap < chunk_size
    /\ Len(text) >= chunk_size
    /\ iteration = (Len(text) \div (chunk_size - overlap)) + 2

(***************************************************************************)
(* KGService.upsert_edges on the kg_edges table.  The session does not     *)
(* autoflush, so a lookup sees committed rows only; the table has a unique *)
(* constraint on (src_type, src_id, rel_type, dst_type, dst_id).           *)
(***************************************************************************)
MaxUpserts == 2
MaxEdgesPerCall == 2

\* (src_type, src_id, rel_type, dst_type, dst_id)
EdgeKeys ==
    {<<"concept", "a", "related_to", "concept", "b">>,
     <<"concept", "a", "part_of", "concept", "b">>}

\* the edge dictionaries a caller may pass; weights are counted in tenths
EdgeData ==
    [key : EdgeKeys, weight : {5}, evidence : {"ev1"}]
        \cup [key : EdgeKeys, weight : {9}, evidence : {"ev2"}]

\* select(KGEdge).where(workspace_id, src_type, src_id, rel_type, dst_type,
\* dst_id): the rows that match
MatchingEdges(table, workspace_id, key) ==
    {row \in table : row.workspace_id = workspace_id /\ row.key = key}

\* the update branch: weight and evidence are taken from the edge dictionary
UpdatedEdgeKeepsWeight(row, edge_data) ==
    [row EXCEPT !.evidence = edge_data.evidence]
UpdatedEdge(row, edge_data) ==
    [row EXCEPT !.weight = edge_data.weight, !.evidence = edge_data.evidence]

\* the loop of upsert_edges: the rows of the table with the updates made on
\* the loaded objects, and the new objects added to the session
RECURSIVE StagedEdges(_, _, _)
StagedEdges(table, workspace_id, edges) ==
    IF edges = <<>> THEN [rows |-> table, added |-> <<>>]
    ELSE LET before == StagedEdges(table, workspace_id,
                                   SubSeq(edges, 1, Len(edges) - 1))
             edge_data == edges[Len(edges)]
             existing == MatchingEdges(before.rows, workspace_id, edge_data.key)
         IN  IF existing # {}
             THEN LET edge == CHOOSE row \in existing : TRUE
                  IN  [rows |-> (before.rows \ {edge})
                                  \cup {UpdatedEdge(edge, edge_data)},
                       added |-> before.added]
             ELSE [rows |-> before.rows,
                   added |-> Append(before.added,
                                    [id |-> Cardinality(table)
                                              + Len(before.added) + 1,
                                     workspace_id |-> workspace_id,
                                     key |-> edge_data.key,
                                     weight |-> edge_data.weight,
                                     evidence |-> edge_data.evidence])]

\* uq_kg_edges_src_rel_dst: what the INSERTs of the flush run into
NoUniqueConstraint(table, added) == FALSE
ViolatesUniqueConstraint(table, added) ==
    \/ \E i \in 1..Len(added) : \E row \in table : row.key = added[i].key
    \/ \E i, j \in 1..Len(added) : i # j /\ added[i].key = added[j].key

InitEdge ==
    /\ IdleSrs
    /\ IdleFn
    /\ IdleApi
    /\ IdleIng
    /\ IdlePref
    /\ IdleRelated
    /\ IdleEdgePrep
    /\ IdleConcept
    /\ IdleReingest
    /\ IdleReviewRace
    /\ IdleIngOut
    /\ IdlePipe
    /\ IdleCard
    /\ IdlePrep
    /\ IdleRace
    /\ IdleRun
    /\ IdleGraph
    /\ IdleChat
    /\ IdleChunk
    /\ kg_edges = {}
    /\ upsert_call = NoState
    /\ upsert_count = 0

\* one call of upsert_edges, up to its return or its ValueError
UpsertEdges(workspace_id, edges, commit_ok) ==
    /\ upsert_count < MaxUpserts
    /\ upsert_count' = upsert_count + 1
    /\ LET staged == StagedEdges(kg_edges, workspace_id, edges)
           committed ==
               /\ commit_ok
               /\ ~ViolatesUniqueConstraint(kg_edges, staged.added)
       IN  /\ kg_edges' = IF edges # <<>> /\ committed
                          THEN staged.rows \cup SeqRange(staged.added)
                          ELSE kg_edges
           /\ upsert_call' = [workspace_id |-> workspace_id, edges |-> edges,
                              returned |-> (edges = <<>> \/ committed)]
    /\ UNCHANGED exceptEdge

NextEdge ==
    \E workspace_id \in Workspaces,
       edges \in BoundedSeq(EdgeData, MaxEdgesPerCall),
       commit_ok \in BOOLEAN :
        UpsertEdges(workspace_id, edges, commit_ok)

SpecEdge == InitEdge /\ [][NextEdge]_vars

(***************************************************************************)
(* Properties of the edge upsert.                                          *)
(***************************************************************************)
\* the call just made returned, and it upserted key once, in a workspace
\* where an earlier call had stored it
UpsertedAgain(key) ==
    /\ upsert_call' # upsert_call \/ upsert_count' # upsert_count
    /\ upsert_call'.returned
    /\ MatchingEdges(kg_edges, upsert_call'.workspace_id, key) # {}
    /\ Cardinality({i \in 1..Len(upsert_call'.edges) :
                        upsert_call'.edges[i].key = key}) = 1

\* C20: a call that upserts an edge already stored for the same workspace
\* and the same (src_type, src_id, rel_type, dst_type, dst_id) leaves exactly
\* one row for it, the row that was there, with the weight and evidence of
\* the second call.
SecondUpsertUpdatesInPlace ==
    [][\A key \in EdgeKeys :
          UpsertedAgain(key) =>
              LET before == MatchingEdges(kg_edges, upsert_call'.workspace_id,
                                          key)
                  after == MatchingEdges(kg_edges', upsert_call'.workspace_id,
                                         key)
              IN  /\ Cardinality(after) = 1
                  /\ {row.id : row \in after} = {row.id : row \in before}
                  /\ \A row \in after :
                        \E i \in 1..Len(upsert_call'.edges) :
                            /\ upsert_call'.edges[i].key = key
                            /\ row.weight = upsert_call'.edges[i].weight
                            /\ row.evidence = upsert_call'.edges[i].evidence]_vars

\* an edge stored with weight 0.5 and upserted again with weight 0.9
EdgeUpsertedTwice ==
    /\ upsert_count = 2
    /\ upsert_call # NoState
    /\ upsert_call.returned
    /\ upsert_call.edges = <<[key |-> <<"concept", "a", "related_to",
                                        "concept", "b">>,
                              weight |-> 9, evidence |-> "ev2"]>>
    /\ \E row \in kg_edges :
          /\ row.id = 1
          /\ row.workspace_id = upsert_call.workspace_id
          /\ row.key = upsert_call.edges[1].key
          /\ row.weight = 9
    /\ Cardinality(kg_edges) = 1

(***************************************************************************)
(* Concurrent calls of KGService.upsert_edges, each in its own session:    *)
(* every lookup is one step and reads the committed rows, the commit is    *)
(* one step in which the database checks uq_kg_edges_src_rel_dst.          *)
(***************************************************************************)
Sessions == {"s1", "s2"}

IdleUpserter ==
    [pc |-> "idle", workspace_id |-> "w1", edges |-> <<>>, index |-> 1,
     updates |-> <<>>, added |-> <<>>]

\* the UPDATEs of the flush: each loaded row gets the last values assigned
ApplyUpdates(table, updates) ==
    {LET assigned == {i \in 1..Len(updates) : updates[i][1] = row.id}
     IN  IF assigned = {} THEN row
         ELSE UpdatedEdge(row,
                          updates[CHOOSE i \in assigned :
                                      \A j \in assigned : j <= i][2])
     : row \in table}

\* the INSERTs of the flush: the rows added, with their generated ids
InsertedRows(table, workspace_id, added) ==
    {[id |-> Cardinality(table) + i, workspace_id |-> workspace_id,
      key |-> added[i].key, weight |-> added[i].weight,
      evidence |-> added[i].evidence] : i \in 1..Len(added)}

InitRace ==
    /\ IdleSrs
    /\ IdleFn
    /\ IdleApi
    /\ IdleIng
    /\ IdlePref
    /\ IdleRelated
    /\ IdleEdgePrep
    /\ IdleConcept
    /\ IdleReingest
    /\ IdleReviewRace
    /\ IdleIngOut
    /\ IdlePipe
    /\ IdleCard
    /\ IdlePrep
    /\ IdleRun
    /\ IdleGraph
    /\ IdleChat
    /\ IdleChunk
    /\ IdleEdge
    /\ edge_table = {}
    /\ upserters = [s \in Sessions |-> IdleUpserter]

\* upsert_edges is called; an empty list returns at once
BeginUpsert(s, workspace_id, edges) ==
    /\ upserters[s].pc = "idle"
    /\ upserters' = [upserters EXCEPT
                        ![s] = [IdleUpserter EXCEPT
                                   !.pc = IF edges = <<>> THEN "returned"
                                          ELSE "loop",
                                   !.workspace_id = workspace_id,
                                   !.edges = edges]]
    /\ UNCHANGED <<edge_table, exceptRace>>

\* one pass through the loop: the select, then the update of the row found
\* or the add of a new object
LookupEdge(s) ==
    LET u == upserters[s]
        edge_data == u.edges[u.index]
        existing == MatchingEdges(edge_table, u.workspace_id, edge_data.key)
    IN  /\ u.pc = "loop"
        /\ upserters' = [upserters EXCEPT
              ![s] = [u EXCEPT
                  !.updates = IF existing # {}
                              THEN Append(u.updates,
                                          <<(CHOOSE row \in existing : TRUE).id,
                                            edge_data>>)
                              ELSE u.updates,
                  !.added = IF existing # {} THEN u.added
                            ELSE Append(u.added, edge_data),
                  !.index = u.index + 1,
                  !.pc = IF u.index = Len(u.edges) THEN "commit" ELSE "loop"]]
        /\ UNCHANGED <<edge_table, exceptRace>>

\* _commit_and_refresh: the flush and commit, or the rollback and ValueError
CommitUpsert(s, commit_ok) ==
    LET u == upserters[s]
        violates == ViolatesUniqueConstraint(edge_table, u.added)
    IN  /\ u.pc = "commit"
        /\ IF commit_ok /\ ~violates
           THEN /\ edge_table' =
                      ApplyUpdates(edge_table, u.updates)
                          \cup InsertedRows(edge_table, u.workspace_id, u.added)
                /\ upserters' = [upserters EXCEPT ![s].pc = "returned"]
           ELSE /\ upserters' = [upserters EXCEPT
                      ![s].pc = IF violates THEN "raised_integrity"
                                ELSE "raised"]
                /\ UNCHANGED edge_table
        /\ UNCHANGED exceptRace

NextRace ==
    \/ \E s \in Sessions, workspace_id \in Workspaces,
          edges \in BoundedSeq(EdgeData, MaxEdgesPerCall) :
            BeginUpsert(s, workspace_id, edges)
    \/ \E s \in Sessions : LookupEdge(s)
    \/ \E s \in Sessions, commit_ok \in BOOLEAN : CommitUpsert(s, commit_ok)

SpecRace == InitRace /\ [][NextRace]_vars

(***************************************************************************)
(* Properties of concurrent edge upserts.                                  *)
(***************************************************************************)
\* C21: whatever the interleaving of concurrent upsert_edges calls, the
\* table never holds two rows with the same (src_type, src_id, rel_type,
\* dst_type, dst_id), hence never two for the same workspace and key.
OneRowPerKey ==
    \A key \in EdgeKeys :
        Cardinality({row \in edge_table : row.key = key}) <= 1

\* both sessions looked the same key up before either committed, both added
\* it, one commit went through and the other ran into the constraint
RacingInsertRejected ==
    /\ upserters # <<>>
    /\ upserters["s1"].pc = "returned"
    /\ upserters["s2"].pc = "raised_integrity"
    /\ upserters["s1"].workspace_id = upserters["s2"].workspace_id
    /\ Len(upserters["s1"].added) = 1
    /\ Len(upserters["s2"].added) = 1
    /\ upserters["s1"].added[1].key = upserters["s2"].added[1].key
    /\ Cardinality(edge_table) = 1

(***************************************************************************)
(* _prepare_concepts of the KG extraction graph, on whole concept lists.   *)
(* Confidences are in hundredths.  The lists are built from blocks of      *)
(* concepts of equal confidence, so that they can exceed the cap.          *)
(***************************************************************************)
MAX_CONCEPTS_PER_DOCUMENT == 20
MIN_CONCEPT_CONFIDENCE == 70

MaxBlocks == 3
BlockLengths == {1, 10, 11}
Confidences == {69, 70, 85, 100}
Blocks == [confidence : Confidences, length : BlockLengths]

\* the concepts of a list of blocks, named by their position in the response
RECURSIVE ConceptsOf(_, _)
ConceptsOf(blocks, first) ==
    IF blocks = <<>> THEN <<>>
    ELSE [i \in 1..Head(blocks).length |->
             [name |-> first + i - 1, confidence |-> Head(blocks).confidence]]
         \o ConceptsOf(Tail(blocks), first + Head(blocks).length)

LlmConceptLists == {ConceptsOf(blocks, 1) : blocks \in BoundedSeq(Blocks, MaxBlocks)}

\* [concept for concept in response.concepts if concept.confidence >= MIN]
FilteredConcepts(concepts) ==
    SelectSeq(concepts, LAMBDA concept :
                            concept.confidence >= MIN_CONCEPT_CONFIDENCE)

\* where a concept goes in a list sorted by confidence, highest first:
\* behind every concept at least as confident (the sort is stable)
InsertByConfidence(sorted, concept) ==
    LET ahead == Cardinality({i \in 1..Len(sorted) :
                                 sorted[i].confidence >= concept.confidence})
    IN  SubSeq(sorted, 1, ahead) \o <<concept>>
            \o SubSeq(sorted, ahead + 1, Len(sorted))

\* filtered_concepts.sort(key=lambda c: c.confidence, reverse=True)
RECURSIVE SortedByConfidenceFrom(_, _)
SortedByConfidenceFrom(sorted, concepts) ==
    IF concepts = <<>> THEN sorted
    ELSE SortedByConfidenceFrom(InsertByConfidence(sorted, Head(concepts)),
                                Tail(concepts))

InResponseOrder(concepts) == concepts
SortedByConfidence(concepts) == SortedByConfidenceFrom(<<>>, concepts)

\* filtered_concepts[:MAX_CONCEPTS_PER_DOCUMENT]
LimitedConcepts(concepts) ==
    SubSeq(concepts, 1, Min(Len(concepts), MAX_CONCEPTS_PER_DOCUMENT))

PreparedConcepts(concepts) ==
    LimitedConcepts(SortedByConfidence(FilteredConcepts(concepts)))

InitPrep ==
    /\ IdleSrs
    /\ IdleFn
    /\ IdleApi
    /\ IdleIng
    /\ IdlePref
    /\ IdleRelated
    /\ IdleEdgePrep
    /\ IdleConcept
    /\ IdleReingest
    /\ IdleReviewRace
    /\ IdleIngOut
    /\ IdlePipe
    /\ IdleCard
    /\ IdleRun
    /\ IdleGraph
    /\ IdleChat
    /\ IdleChunk
    /\ IdleEdge
    /\ IdleRace
    /\ llm_concepts \in LlmConceptLists
    /\ concepts_data = <<NoState>>

PrepareConceptList ==
    /\ concepts_data = <<NoState>>
    /\ concepts_data' = PreparedConcepts(llm_concepts)
    /\ UNCHANGED <<llm_concepts, exceptPrep>>

NextPrep == PrepareConceptList

SpecPrep == InitPrep /\ [][NextPrep]_vars

(***************************************************************************)
(* Properties of _prepare_concepts.                                        *)
(***************************************************************************)
ConceptsPrepared == concepts_data # <<NoState>>

\* the concepts of the response that reach the threshold and are not returned
QualifyingLeftOut ==
    {llm_concepts[i] : i \in {j \in 1..Len(llm_concepts) :
        /\ llm_concepts[j].confidence >= MIN_CONCEPT_CONFIDENCE
        /\ llm_concepts[j] \notin SeqRange(concepts_data)}}

\* C22: _prepare_concepts returns only concepts of the response whose
\* confidence reaches MIN_CONCEPT_CONFIDENCE, at most
\* MAX_CONCEPTS_PER_DOCUMENT of them, and none of them is less confident
\* than a concept that reaches the threshold and was left out.
PreparedConceptsAreTheBest ==
    ConceptsPrepared =>
        /\ SeqRange(concepts_data) \subseteq SeqRange(llm_concepts)
        /\ \A concept \in SeqRange(concepts_data) :
               concept.confidence >= MIN_CONCEPT_CONFIDENCE
        /\ Len(concepts_data) <= MAX_CONCEPTS_PER_DOCUMENT
        /\ \A kept \in SeqRange(concepts_data), left \in QualifyingLeftOut :
               kept.confidence >= left.confidence

\* a response with concepts under the threshold and more than the cap above
\* it, the more confident ones behind the less confident ones
CapCutsQualifyingConcepts ==
    /\ ConceptsPrepared
    /\ Len(concepts_data) = MAX_CONCEPTS_PER_DOCUMENT
    /\ QualifyingLeftOut # {}
    /\ \E i \in 1..Len(llm_concepts) :
           llm_concepts[i].confidence < MIN_CONCEPT_CONFIDENCE
    /\ \E i, j \in 1..Len(llm_concepts) :
           /\ i < j
           /\ llm_concepts[i].confidence >= MIN_CONCEPT_CONFIDENCE
           /\ llm_concepts[i].confidence < llm_concepts[j].confidence
           /\ llm_concepts[i] \notin SeqRange(concepts_data)

(***************************************************************************)
(* A flashcard generation run with the content of its cards, from          *)
(* generate_flashcards on (the retrieval found chunks).  A text is a       *)
(* sequence of pieces: single characters and whole words; its length is    *)
(* the sum of the lengths of its pieces.                                   *)
(***************************************************************************)
MaxCandidates == 2

Width(piece) ==
    CASE piece \in {"A", "a", "B", "b", "E", "e", " "} -> 1
      [] piece \in {"paris", "PARIS"} -> 5
      [] piece \in {"why?", "WHY?"} -> 4
      [] piece \in {"what is the capital of france?",
                    "WHAT IS THE CAPITAL OF FRANCE?"} -> 30

RECURSIVE TextLen(_)
TextLen(t) == IF t = <<>> THEN 0 ELSE Width(Head(t)) + TextLen(Tail(t))

\* str.strip()
RECURSIVE StripLeft(_)
StripLeft(t) ==
    IF t # <<>> /\ Head(t) = " " THEN StripLeft(Tail(t)) ELSE t
RECURSIVE StripRight(_)
StripRight(t) ==
    IF t # <<>> /\ t[Len(t)] = " " THEN StripRight(SubSeq(t, 1, Len(t) - 1))
    ELSE t
Strip(t) == StripRight(StripLeft(t))

\* str.upper() and str.lower()
UpperPiece(piece) ==
    CASE piece = "a" -> "A"
      [] piece = "b" -> "B"
      [] piece = "e" -> "E"
      [] piece = "paris" -> "PARIS"
      [] piece = "why?" -> "WHY?"
      [] piece = "what is the capital of france?" ->
            "WHAT IS THE CAPITAL OF FRANCE?"
      [] OTHER -> piece
LowerPiece(piece) ==
    CASE piece = "A" -> "a"
      [] piece = "B" -> "b"
      [] piece = "E" -> "e"
      [] piece = "PARIS" -> "paris"
      [] piece = "WHY?" -> "why?"
      [] piece = "WHAT IS THE CAPITAL OF FRANCE?" ->
            "what is the capital of france?"
      [] OTHER -> piece
Upper(t) == [i \in 1..Len(t) |-> UpperPiece(t[i])]
Lower(t) == [i \in 1..Len(t) |-> LowerPiece(t[i])]

\* str.startswith
StartsWith(t, prefix) ==
    Len(prefix) <= Len(t) /\ SubSeq(t, 1, Len(prefix)) = prefix

AnswerLetters == {<<"A">>, <<"B">>, <<"C">>, <<"D">>}

\* what the structured LLM call may return as one FlashcardCard; options
\* and correct_answer left out (None) are the empty sequence, which the
\* code's truth tests treat like the empty list and the empty string
GoodFront == <<"what is the capital of france?">>
FourOptions == [i \in 1..4 |-> <<"paris">>]
ThreeOptions == [i \in 1..3 |-> <<"paris">>]
ShortOption == [i \in 1..4 |-> IF i = 2 THEN <<" ", "a", " ">> ELSE <<"paris">>]

Candidates ==
    [front : {GoodFront},
     back : {<<"A">>, <<" ", "a">>, <<"B">>, <<"paris">>},
     card_type : {"qa", "mcq"},
     options : {FourOptions},
     correct_answer : {<<"A">>, <<"a">>, <<>>}]
    \cup
    [front : {<<>>, <<"why?">>, <<"paris">>},
     back : {<<"A">>, <<" ", "PARIS">>},
     card_type : {"mcq"},
     options : {FourOptions},
     correct_answer : {<<"A">>}]
    \cup
    [front : {GoodFront},
     back : {<<>>, <<"paris">>},
     card_type : {"mcq"},
     options : {ShortOption, ThreeOptions, <<>>},
     correct_answer : {<<"A">>, <<"E">>}]

Modes == {"qa", "mcq"}

\* FLASHCARD_MODE_TO_CARD_TYPE.get(mode, "qa")
ExpectedType(mode) == IF mode = "mcq" THEN "mcq" ELSE "qa"

\* _generate_flashcards, the loop body: the card dict made of one candidate.
\* nr is the candidate's place in response.cards (source_chunk_ids is left
\* out, the same for every card of a run).
CardDataUnnormalized(mode, candidate, nr) ==
    [nr |-> nr, front |-> candidate.front, back |-> candidate.back,
     card_type |-> ExpectedType(mode),
     metadata |-> IF /\ ExpectedType(mode) = "mcq"
                     /\ candidate.options # <<>>
                     /\ candidate.correct_answer # <<>>
                  THEN [options |-> candidate.options,
                        correct_answer |-> candidate.correct_answer]
                  ELSE NoState]
CardData(mode, candidate, nr) ==
    LET expected_type == ExpectedType(mode)
        card_type == IF candidate.card_type # expected_type
                     THEN expected_type ELSE candidate.card_type
        back_normalized == Upper(Strip(candidate.back))
    IN  IF /\ card_type = "mcq"
           /\ candidate.options # <<>>
           /\ candidate.correct_answer # <<>>
        THEN [nr |-> nr, front |-> candidate.front,
              back |-> IF back_normalized \in AnswerLetters
                       THEN back_normalized
                       ELSE Upper(candidate.correct_answer),
              card_type |-> card_type,
              metadata |-> [options |-> candidate.options,
                            correct_answer |-> candidate.correct_answer]]
        ELSE [nr |-> nr, front |-> candidate.front, back |-> candidate.back,
              card_type |-> card_type, metadata |-> NoState]

\* _validate_card: the reason the card is rejected for, "none" if it is valid
RejectionReason(card, requested_mode) ==
    LET front == card.front
        back == card.back
        options == IF card.metadata = NoState THEN <<>>
                   ELSE card.metadata.options
        correct_answer == IF card.metadata = NoState THEN <<>>
                          ELSE card.metadata.correct_answer
    IN  IF front = <<>> \/ back = <<>> THEN "empty_field"
        ELSE IF card.card_type # ExpectedType(requested_mode)
        THEN "card_type_mismatch"
        ELSE IF card.card_type = "mcq"
        THEN IF options = <<>> \/ Len(options) # 4
             THEN "mcq_invalid_options"
             ELSE IF correct_answer \notin AnswerLetters
             THEN "mcq_invalid_answer"
             ELSE IF Upper(Strip(back)) # correct_answer
             THEN "mcq_answer_mismatch"
             ELSE IF \E i \in 1..Len(options) :
                        /\ \A j \in 1..(i - 1) :
                               /\ options[j] # <<>>
                               /\ TextLen(Strip(options[j])) >= 3
                               /\ TextLen(options[j]) <= 200
                        /\ \/ options[i] = <<>>
                           \/ TextLen(Strip(options[i])) < 3
             THEN "mcq_option_too_short"
             ELSE IF \E i \in 1..Len(options) : TextLen(options[i]) > 200
             THEN "mcq_option_too_long"
             ELSE IF TextLen(front) > 300 THEN "front_too_long"
             ELSE IF TextLen(front) < 10 THEN "front_too_short"
             ELSE "none"
        ELSE IF TextLen(front) > 200 THEN "front_too_long"
        ELSE IF TextLen(back) > 300 THEN "back_too_long"
        ELSE IF TextLen(front) < 5 THEN "front_too_short"
        ELSE IF TextLen(back) < 5 THEN "back_too_short"
        ELSE IF Lower(Strip(front)) = Lower(Strip(back))
        THEN "trivial_content"
        ELSE IF StartsWith(Lower(Strip(back)), Lower(Strip(front)))
        THEN "repetitive_content"
        ELSE "none"

ValidateCard(card, requested_mode) ==
    [is_valid |-> RejectionReason(card, requested_mode) = "none",
     reason |-> RejectionReason(card, requested_mode)]

\* _validate_cards: the two lists the loop fills
EveryCard(cards, mode) == cards
ValidatedCards(cards, mode) ==
    SelectSeq(cards, LAMBDA card : ValidateCard(card, mode).is_valid)
DroppedCards(cards, mode) ==
    LET dropped == SelectSeq(cards, LAMBDA card :
                                       ~ValidateCard(card, mode).is_valid)
    IN  [i \in 1..Len(dropped) |->
            [card |-> dropped[i],
             reason |-> IF ValidateCard(dropped[i], mode).reason = "none"
                        THEN "unknown"
                        ELSE ValidateCard(dropped[i], mode).reason]]

\* FlashcardService.create_flashcards_from_text: the rows of the cards
FlashcardRows(cards) ==
    [i \in 1..Len(cards) |->
        [nr |-> cards[i].nr, card_type |-> cards[i].card_type,
         front |-> cards[i].front, back |-> cards[i].back,
         meta_data |-> cards[i].metadata]]

\* the state as the routers and _run_internal look at it: list by list,
\* empty or not
Lengths(st) ==
    [InitialGraphState EXCEPT
        !.search_results = 1,
        !.llm_response = Len(st.llm_response),
        !.cards = Len(st.cards),
        !.validated_cards = Len(st.validated_cards),
        !.dropped_cards = Len(st.dropped_cards),
        !.flashcards = Len(st.flashcards),
        !.preview = Len(st.preview),
        !.error = st.error,
        !.status = st.status]

InitCard ==
    /\ IdleSrs
    /\ IdleFn
    /\ IdleApi
    /\ IdleIng
    /\ IdlePref
    /\ IdleRelated
    /\ IdleEdgePrep
    /\ IdleConcept
    /\ IdleReingest
    /\ IdleReviewRace
    /\ IdleIngOut
    /\ IdlePipe
    /\ IdleRun
    /\ IdleGraph
    /\ IdleChat
    /\ IdleChunk
    /\ IdleEdge
    /\ IdleRace
    /\ IdlePrep
    /\ card_node = "generate_flashcards"
    /\ \E mode \in Modes :
         card_state = [mode |-> mode, llm_response |-> <<>>, cards |-> <<>>,
                       validated_cards |-> <<>>, dropped_cards |-> <<>>,
                       flashcards |-> <<>>, preview |-> <<>>,
                       error |-> NoError, status |-> "pending"]
    /\ card_table = <<>>
    /\ card_output = NoState

CardGoto(from, st) ==
    /\ card_state' = st
    /\ card_node' = Target("flashcard", from, Lengths(st))

\* flashcard_graph._generate_flashcards: the structured LLM call, then one
\* card dict per candidate
GenerateCandidates ==
    /\ card_node = "generate_flashcards"
    /\ \/ \E response \in BoundedSeq(Candidates, MaxCandidates) :
            CardGoto("generate_flashcards",
                     [card_state EXCEPT
                         !.llm_response = response,
                         !.cards = [i \in 1..Len(response) |->
                                       CardData(card_state.mode,
                                                response[i], i)],
                         !.status = "generating"])
       \/ \E e \in Errors :
            CardGoto("generate_flashcards", GenerateFailed(card_state, e))
    /\ UNCHANGED <<card_table, card_output, exceptCard>>

\* flashcard_graph._validate_cards
ValidateCandidates ==
    /\ card_node = "validate_cards"
    /\ CardGoto("validate_cards",
                [card_state EXCEPT
                    !.validated_cards =
                        ValidatedCards(card_state.cards, card_state.mode),
                    !.dropped_cards =
                        DroppedCards(card_state.cards, card_state.mode),
                    !.cards =
                        ValidatedCards(card_state.cards, card_state.mode),
                    !.status = "validating"])
    /\ UNCHANGED <<card_table, card_output, exceptCard>>

\* flashcard_graph._create_flashcards
PersistCards ==
    /\ card_node = "create_flashcards"
    /\ \/ /\ CardGoto("create_flashcards",
                      [card_state EXCEPT
                          !.flashcards =
                              FlashcardRows(card_state.validated_cards),
                          !.status = "creating"])
          /\ card_table' =
                 card_table \o FlashcardRows(card_state.validated_cards)
       \/ /\ \E e \in Errors :
               CardGoto("create_flashcards", Failed(card_state, e))
          /\ UNCHANGED card_table
    /\ UNCHANGED <<card_output, exceptCard>>

\* flashcard_graph._build_preview
PreviewCards ==
    /\ card_node = "build_preview"
    /\ CardGoto("build_preview",
                [card_state EXCEPT
                    !.preview = SubSeq(card_state.validated_cards, 1,
                                       Min(5, Len(card_state.validated_cards))),
                    !.status = "completed"])
    /\ UNCHANGED <<card_table, card_output, exceptCard>>

\* flashcard_graph._handle_error
HandleCardError ==
    /\ card_node = "handle_error"
    /\ CardGoto("handle_error", card_state)
    /\ UNCHANGED <<card_table, card_output, exceptCard>>

\* FlashcardAgent._run_internal once ainvoke returned the final state
ReturnCards ==
    /\ card_node = "END"
    /\ card_node' = "RETURNED"
    /\ card_output' =
         LET result == FlashcardRunInternal(Lengths(card_state))
         IN  [raised |-> result.raised,
              error |-> result.error,
              reason |-> result.reason,
              flashcards_created |-> result.written,
              dropped_count |-> IF result.raised THEN 0
                                ELSE Len(card_state.dropped_cards),
              dropped_reasons |-> IF result.raised THEN <<>>
                                  ELSE card_state.dropped_cards]
    /\ UNCHANGED <<card_state, card_table, exceptCard>>

NextCard ==
    \/ GenerateCandidates
    \/ ValidateCandidates
    \/ PersistCards
    \/ PreviewCards
    \/ HandleCardError
    \/ ReturnCards

SpecCard == InitCard /\ [][NextCard]_vars

ValidationRan ==
    /\ card_state # NoState
    /\ card_state.status \in {"validating", "creating", "completed", "failed"}

AcceptedNrs == {card_state.validated_cards[i].nr :
                    i \in 1..Len(card_state.validated_cards)}
RejectedNrs == {card_state.dropped_cards[i].card.nr :
                    i \in 1..Len(card_state.dropped_cards)}

\* C24: validation puts every generated candidate in exactly one of the
\* accepted and the rejected cards, every rejected one with a reason code;
\* and a run all of whose candidates were rejected persists no card and
\* returns 0 created, reason insufficient_content and one dropped reason
\* per generated candidate.
ValidationPartitionsCandidates ==
    ValidationRan =>
        /\ AcceptedNrs \cup RejectedNrs = 1..Len(card_state.llm_response)
        /\ AcceptedNrs \cap RejectedNrs = {}
        /\ Len(card_state.validated_cards) + Len(card_state.dropped_cards)
               = Len(card_state.llm_response)
        /\ \A i \in 1..Len(card_state.dropped_cards) :
               card_state.dropped_cards[i].reason \notin {"none", ""}
        /\ card_state.validated_cards = <<>> =>
               /\ card_table = <<>>
               /\ card_output # NoState =>
                      /\ ~card_output.raised
                      /\ card_output.flashcards_created = 0
                      /\ card_output.reason = "insufficient_content"
                      /\ Len(card_output.dropped_reasons)
                             = Len(card_state.llm_response)

\* a run returned whose two candidates were rejected, for different reasons
AllCandidatesRejected ==
    /\ ValidationRan
    /\ card_output # NoState
    /\ Len(card_state.llm_response) = 2
    /\ card_state.validated_cards = <<>>
    /\ Len(card_output.dropped_reasons) = 2
    /\ card_output.dropped_reasons[1].reason
           # card_output.dropped_reasons[2].reason

(***************************************************************************)
(* The five compiled graphs as graphs: which node runs after which.  A     *)
(* node returns the state with or without an error; a router that finds an *)
(* error returns "error", and any of its labels otherwise, which covers    *)
(* every outcome of the collaborators.                                     *)
(***************************************************************************)
Pipelines == {"ingestion", "study_chat", "summary", "flashcard",
              "kg_extraction"}

\* set_entry_point
EntryPoint(p) ==
    CASE p = "ingestion" -> "validate_document"
      [] p = "study_chat" -> "reformulate_query"
      [] OTHER -> "retrieve_chunks"

\* add_node
PipeNodes(p) ==
    CASE p = "ingestion" ->
            {"validate_document", "store_raw_text", "chunk_document",
             "embed_chunks", "generate_optional_content", "update_status",
             "handle_error"}
      [] p = "study_chat" ->
            {"reformulate_query", "search_chunks", "generate_answer",
             "validate_citations", "build_output", "handle_error"}
      [] p = "summary" ->
            {"retrieve_chunks", "analyze_quality", "generate_summary",
             "store_summary", "handle_error"}
      [] p = "flashcard" ->
            {"retrieve_chunks", "generate_flashcards", "validate_cards",
             "create_flashcards", "build_preview", "handle_error"}
      [] p = "kg_extraction" ->
            {"retrieve_chunks", "extract_kg", "prepare_concepts",
             "upsert_concepts", "build_name_mapping", "prepare_edges",
             "upsert_edges", "find_related_concepts", "build_output",
             "handle_error"}

\* the labels of the mapping given to add_conditional_edges; a node with a
\* plain edge goes on
PipeLabels(p, from) ==
    CASE from \in {"retrieve_chunks", "search_chunks"} /\ p # "summary" ->
            {"continue", "empty", "error"}
      [] p = "flashcard" /\ from = "validate_cards" ->
            {"continue", "insufficient", "error"}
      [] \/ p = "ingestion" /\ from \in {"store_raw_text", "chunk_document",
                                         "embed_chunks",
                                         "generate_optional_content"}
         \/ p = "study_chat" /\ from = "generate_answer"
         \/ p = "summary" /\ from \in {"retrieve_chunks", "analyze_quality",
                                       "generate_summary"}
         \/ p = "flashcard" /\ from = "generate_flashcards"
         \/ p = "kg_extraction" /\ from \in {"extract_kg", "upsert_concepts",
                                             "upsert_edges",
                                             "find_related_concepts"} ->
            {"continue", "error"}
      [] OTHER -> {"continue"}

\* the routers: _should_continue and the _should_continue_after_... of each
\* graph test the error first; _should_continue_after_summary of the
\* ingestion graph always goes on
RouterReturns(p, from, error) ==
    IF p = "ingestion" /\ from = "generate_optional_content"
    THEN {"continue"}
    ELSE IF error /\ "error" \in PipeLabels(p, from) THEN {"error"}
    ELSE PipeLabels(p, from)

\* build_summary_graph: the node an edge leads to
SummaryEdgeRetrying(from, label) ==
    CASE from = "retrieve_chunks" ->
            IF label = "continue" THEN "analyze_quality" ELSE "handle_error"
      [] from = "analyze_quality" ->
            IF label = "continue" THEN "generate_summary" ELSE "handle_error"
      [] from = "generate_summary" ->
            IF label = "continue" THEN "store_summary" ELSE "handle_error"
      [] from = "store_summary" -> "END"
      [] from = "handle_error" -> "retrieve_chunks"
SummaryEdge(from, label) ==
    CASE from = "retrieve_chunks" ->
            IF label = "continue" THEN "analyze_quality" ELSE "handle_error"
      [] from = "analyze_quality" ->
            IF label = "continue" THEN "generate_summary" ELSE "handle_error"
      [] from = "generate_summary" ->
            IF label = "continue" THEN "store_summary" ELSE "handle_error"
      [] from = "store_summary" -> "END"
      [] from = "handle_error" -> "END"

PipeEdge(p, from, label) ==
    CASE p = "ingestion" -> NextNode(from, label)
      [] p = "study_chat" -> ChatEdge(from, label)
      [] p = "summary" -> SummaryEdge(from, label)
      [] p = "flashcard" -> FlashcardEdge(from, label)
      [] p = "kg_extraction" -> KgEdge(from, label)

\* the nodes that await a collaborator outside any try: what it raises
\* leaves the graph through ainvoke
UnguardedNodes(p) == IF p = "ingestion" THEN {"validate_document"} ELSE {}

InitPipe ==
    /\ IdleSrs
    /\ IdleFn
    /\ IdleApi
    /\ IdleIng
    /\ IdlePref
    /\ IdleRelated
    /\ IdleEdgePrep
    /\ IdleConcept
    /\ IdleReingest
    /\ IdleReviewRace
    /\ IdleIngOut
    /\ IdleRun
    /\ IdleGraph
    /\ IdleChat
    /\ IdleChunk
    /\ IdleEdge
    /\ IdleRace
    /\ IdlePrep
    /\ IdleCard
    /\ pipeline \in Pipelines
    /\ pipe_node = EntryPoint(pipeline)
    /\ pipe_trace = <<>>
    /\ pipe_error = FALSE

\* the node runs and returns a state; the graph follows the edge
RunNode(caught, label) ==
    /\ pipe_node \notin {"END", "RAISED"}
    /\ pipe_error' = (pipe_error \/ caught)
    /\ label \in RouterReturns(pipeline, pipe_node, pipe_error')
    /\ pipe_trace' = Append(pipe_trace, <<pipe_node, label>>)
    /\ pipe_node' = PipeEdge(pipeline, pipe_node, label)
    /\ UNCHANGED <<pipeline, exceptPipe>>

\* the node raises
NodeRaises ==
    /\ pipe_node \in UnguardedNodes(pipeline)
    /\ pipe_trace' = Append(pipe_trace, <<pipe_node, "raised">>)
    /\ pipe_node' = "RAISED"
    /\ UNCHANGED <<pipeline, pipe_error, exceptPipe>>

NextPipe ==
    \/ \E caught \in BOOLEAN,
          label \in {"continue", "empty", "insufficient", "error"} :
            RunNode(caught, label)
    \/ NodeRaises

SpecPipe == InitPipe /\ [][NextPipe]_vars

(***************************************************************************)
(* Properties of the graphs.                                               *)
(***************************************************************************)
PipeFinished == pipe_node \in {"END", "RAISED"}

IngestionRunInternal(db_ok) ==
    /\ node \in {"END", "RAISED"}
    /\ ingestion_state # NoState
    /\ ingestion_output = NoState
    /\ IF node = "RAISED"
       THEN /\ ingestion_output' = [raised |-> TRUE,
                                    error |-> "get_document raised",
                                    status |-> NoStatus]
            /\ UNCHANGED document_row
            /\ SessionUntouched
       ELSE IF ingestion_state.error # NoError
               \/ ingestion_state.status = "failed"
       THEN /\ ingestion_output' = [raised |-> TRUE,
                                    error |-> ingestion_state.error,
                                    status |-> NoStatus]
            /\ IF db_ok /\ document_row # NoState
               THEN /\ document_row' = [document_row EXCEPT !.status = "failed"]
                    /\ SessionCommit({})
               ELSE /\ UNCHANGED document_row
                    /\ IF document_row # NoState THEN SessionRollback
                       ELSE SessionUntouched
       ELSE /\ ingestion_output' = [raised |-> FALSE, error |-> NoError,
                                    status |-> "ready"]
            /\ UNCHANGED document_row
            /\ SessionUntouched
    /\ UNCHANGED <<node, ingestion_state, steps, preferences, raw_text, sub_pc,
                   sub_faulted, kg_edge_index>>
    /\ UNCHANGED exceptIngestion

NextIngRun ==
    \/ NextIng
    \/ \E db_ok \in BOOLEAN : IngestionRunInternal(db_ok)

SpecIngRun == InitIng /\ [][NextIngRun]_vars

(***************************************************************************)
(* Properties of an ingestion run and its outcome.                         *)
(***************************************************************************)
HandlerRan == <<"error_handling", "started">> \in steps
RequiredStageFailed == ingestion_state.error # NoError
OptionalStageOrAuditRan ==
    \/ \E g \in SubGenerators : sub_pc[g] # "idle"
    \/ <<"audit", "started">> \in steps

MissingDocumentStopsAtValidation ==
    (ingestion_state # NoState /\ <<"validate_document", "failed">> \in steps) =>
        /\ \A step \in steps :
               step[1] \notin {"store_raw_text", "chunk", "embed"}
        /\ ingestion_output # NoState =>
               /\ ingestion_output.raised
               /\ ingestion_output.error = "document not found"

\* C28: when an ingestion run ends with status completed and no error, the
\* document's stored status is ready.
CompletedRunLeavesDocumentReady ==
    (/\ ingestion_state # NoState
     /\ ingestion_output # NoState
     /\ ~ingestion_output.raised
     /\ ingestion_state.status = "completed"
     /\ ingestion_state.error = NoError) =>
        /\ document_row # NoState
        /\ document_row.status = "ready"

(***************************************************************************)
(* Concurrent record_review calls for one (flashcard, user) pair, each in  *)
(* its own session: the reads and the checks are one step, the commit is   *)
(* another.  The rows are those of Spec.                                   *)
(***************************************************************************)
Reviewers == {"r1", "r2"}

IdleReviewer == [pc |-> "idle", grade |-> NoInt, seen |-> NoState, now |-> NoTime]

InitReviewRace ==
    /\ IdleFn
    /\ IdleApi
    /\ IdleIng
    /\ IdlePref
    /\ IdleRelated
    /\ IdleEdgePrep
    /\ IdleConcept
    /\ IdleReingest
    /\ IdleRun
    /\ IdleGraph
    /\ IdleChat
    /\ IdleChunk
    /\ IdleEdge
    /\ IdleRace
    /\ IdlePrep
    /\ IdleCard
    /\ IdlePipe
    /\ IdleIngOut
    /\ flashcardExists = TRUE
    /\ \/ srs_state = NoState /\ reviews = 0
       \/ srs_state = ReviewedState(0, NoState, 0) /\ reviews = 1
    /\ clock = 0
    /\ ticks = 0
    /\ budget = MaxReviews
    /\ lastCall = NoCall
    /\ reviewers = [r \in Reviewers |-> IdleReviewer]

\* record_review up to the checks, not forced: the two selects, now, the
\* due check and the cooldown check
BeginReview(r, grade) ==
    LET outcome == ReviewOutcome(grade, FALSE, srs_state, clock,
                                 DEFAULT_COOLDOWN_SECONDS)
    IN  /\ reviewers[r].pc = "idle"
        /\ reviewers' = [reviewers EXCEPT
              ![r] = [pc |-> IF outcome = "recorded" THEN "checked"
                             ELSE outcome,
                      grade |-> grade, seen |-> srs_state, now |-> clock]]
        /\ UNCHANGED <<srsVars, exceptReview>>

\* record_review from _calculate_srs_update on: the row read is updated, or
\* a new one added, the review is added, and both are committed; a second
\* INSERT of the pair's row violates the primary key
CommitReview(r, commit_ok) ==
    LET call == reviewers[r]
        duplicate == call.seen = NoState /\ srs_state # NoState
    IN  /\ call.pc = "checked"
        /\ IF commit_ok /\ ~duplicate
           THEN /\ srs_state' = ReviewedState(call.grade, call.seen, call.now)
                /\ reviews' = reviews + 1
                /\ reviewers' = [reviewers EXCEPT ![r].pc = "recorded"]
           ELSE /\ reviewers' = [reviewers EXCEPT ![r].pc = "database_error"]
                /\ UNCHANGED <<srs_state, reviews>>
        /\ UNCHANGED <<flashcardExists, clock, ticks, budget, lastCall>>
        /\ UNCHANGED exceptReview

NextReviewRace ==
    \/ AdvanceClock
    \/ \E r \in Reviewers, grade \in Grades : BeginReview(r, grade)
    \/ \E r \in Reviewers, commit_ok \in BOOLEAN : CommitReview(r, commit_ok)

SpecReviewRace == InitReviewRace /\ [][NextReviewRace]_vars

(***************************************************************************)
(* Properties of concurrent reviews.                                       *)
(***************************************************************************)
\* C29: two record_review calls without force for the same flashcard and
\* user that overlap in time, hence less than the cooldown apart, are never
\* both recorded.
OverlappingReviewsNotBothRecorded ==
    reviewers # <<>> =>
        ~ /\ reviewers["r1"].pc = "recorded"
          /\ reviewers["r2"].pc = "recorded"
          /\ AbsDiff(reviewers["r1"].now, reviewers["r2"].now)
                 < DEFAULT_COOLDOWN_SECONDS

(***************************************************************************)
(* An agent run with its AgentRun row: the row is created, the pipeline    *)
(* (the study chat, the flashcard or the KG extraction graph, then         *)
(* _run_internal) executes, and the row is completed according to whether  *)
(* the agent returned or raised.                                           *)
(***************************************************************************)
InitAgentRun ==
    /\ IdleSrs
    /\ IdleFn
    /\ IdleApi
    /\ IdleIng
    /\ IdlePref
    /\ IdleRelated
    /\ IdleEdgePrep
    /\ IdleConcept
    /\ IdleReingest
    /\ IdleChunk
    /\ IdleEdge
    /\ IdleRace
    /\ IdlePrep
    /\ IdleCard
    /\ IdlePipe
    /\ IdleIngOut
    /\ IdleReviewRace
    /\ run_row = NoState
    /\ run_pc = "new"
    /\ run_sync \in BOOLEAN
    /\ run_logged = 0
    /\ \/ /\ IdleGraph
          /\ chat_node = "reformulate_query"
          /\ \E previous_messages \in BOOLEAN :
                chat_state = InitialChatState(previous_messages)
          /\ chat_failure = NoError
          /\ chat_visited = {}
          /\ chat_output = NoState
       \/ /\ IdleChat
          /\ graph \in Graphs
          /\ graph_node = "retrieve_chunks"
          /\ graph_state = InitialGraphState
          /\ graph_failure = NoError
          /\ agent_result = NoState

\* output = await execute_fn() / result = await agent_method(...): a step of
\* the pipeline
ExecutePipeline ==
    /\ run_pc = "executing"
    /\ \/ chat_state # NoState /\ NextChat
       \/ graph_state # NoState /\ NextGraph

\* execute_fn returned the output, or raised into the except branch
PipelineReturns ==
    /\ run_pc = "executing"
    /\ \/ /\ chat_state # NoState
          /\ chat_node = "RETURNED"
          /\ run_pc' = "completing"
       \/ /\ graph_state # NoState
          /\ graph_node = "RETURNED"
          /\ run_pc' = IF agent_result.raised THEN "failing" ELSE "completing"
    /\ UNCHANGED <<run_row, run_sync, run_logged, exceptRun>>

NextAgentRun ==
    \/ \E o \in DbOutcomes : CreateRunRow(o)
    \/ \E o \in DbOutcomes : StartExecution(o)
    \/ ExecutePipeline
    \/ PipelineReturns
    \/ \E o \in DbOutcomes : CompleteRun(o)
    \/ \E o \in DbOutcomes : FailRun(o)

SpecAgentRun == InitAgentRun /\ [][NextAgentRun]_vars

(***************************************************************************)
(* Properties of the AgentRun row of a pipeline run.                       *)
(***************************************************************************)
\* the pipeline's state carries an error
PipelineStateHasError ==
    \/ chat_state # NoState /\ chat_state.error # NoError
    \/ graph_state # NoState /\ graph_state.error # NoError

\* C30: an AgentRun row is succeeded only if the final state of its
\* pipeline carries no error, and the row of a run whose pipeline ended on
\* its error path, once completed, is failed.
SucceededOnlyWithoutError ==
    (run_row # NoState /\ run_row.status \in {"succeeded", "failed"}
        /\ run_pc = "done" /\ PipelineStateHasError) =>
            run_row.status = "failed"

(***************************************************************************)
(* Properties of the background execution of an AgentRun.                  *)
(***************************************************************************)
\* C31: the step that ends the background task of a run created as queued
\* (the last update_status of execute_agent_async returned or raised)
\* leaves the row succeeded or failed, so that no run whose task has started
\* stays queued or running for ever.
StartedTaskEndsTerminal ==
    [][(~run_sync /\ run_pc \in {"completing", "failing"} /\ run_pc' = "done")
          => run_row'.status \in {"succeeded", "failed"}]_vars

\* C32: the windows produced are exactly [start, min(start + chunk_size,
\* len(text))) for start = 0, step, 2 * step, ... with step = chunk_size -
\* overlap, and no window follows the first window that ends at len(text).
WindowsStopAtTextEnd ==
    (0 <= overlap /\ overlap < chunk_size) =>
        /\ \A i \in 1..Len(chunks) :
              /\ chunks[i][1] = (i - 1) * (chunk_size - overlap)
              /\ chunks[i][2] = Min(chunks[i][1] + chunk_size, Len(text))
        /\ \A i \in 1..(Len(chunks) - 1) : chunks[i][2] # Len(text)

(***************************************************************************)
(* One document re-ingested: ChunkingService.chunk_document and            *)
(* EmbeddingService.embed_chunks called one after the other on the         *)
(* document_chunks and embeddings tables and on the chunks collection of   *)
(* the vector index.  A chunk's id (a fresh uuid) is modelled as the pair  *)
(* of the number of the call that created it and its index.                *)
(***************************************************************************)
MaxChunkRuns == 2

\* _recursive_chunk as a function: the list the loop returns, or raised
RECURSIVE RecursiveChunkFrom(_, _, _, _, _, _)
RecursiveChunkFrom(t, size, o, from, iter, acc) ==
    IF ~(from < Len(t)) THEN [raised |-> FALSE, chunks |-> acc]
    ELSE IF iter + 1 > MaxIterations(Len(t), size - o)
    THEN [raised |-> TRUE, chunks |-> <<>>]
    ELSE LET end_char == Min(from + size, Len(t))
             next_start == NextStart(end_char, o)
             appended == Append(acc, <<from, end_char,
                                       Slice(t, from, end_char)>>)
         IN  IF next_start <= from
             THEN [raised |-> FALSE, chunks |-> appended]
             ELSE RecursiveChunkFrom(t, size, o, next_start, iter + 1,
                                     appended)

RecursiveChunk(t, size, o) ==
    IF o >= size THEN [raised |-> TRUE, chunks |-> <<>>]
    ELSE RecursiveChunkFrom(t, size, o, 0, 0, <<>>)

\* delete(DocumentChunk).where(document_id == document_id): the rows left
ExistingChunksKept(rows) == rows
ExistingChunksDeleted(rows) == {}

\* for idx, (start_char, end_char, content) in enumerate(chunk_data)
ChunkRecords(windows, call) ==
    {[id |-> <<call, i - 1>>, chunk_index |-> i - 1,
      start_char |-> windows[i][1], end_char |-> windows[i][2],
      content |-> windows[i][3]] : i \in 1..Len(windows)}

\* uq_document_chunks_document_chunk
ChunkIndexTaken(rows, added) ==
    \E a \in added, r \in rows : a.chunk_index = r.chunk_index

\* the Embedding rows and the Qdrant points embed_chunks builds
EmbeddingRecords(rows) ==
    {[entity_id |-> c.id, model |-> "default"] : c \in rows}
ChunkPoints(rows) ==
    {[id |-> c.id, chunk_index |-> c.chunk_index] : c \in rows}

\* upsert_points: a point replaces the point of the same id
UpsertPoints(points, added) ==
    {p \in points : \A a \in added : a.id # p.id} \cup added

InitReingest ==
    /\ IdleSrs
    /\ IdleFn
    /\ IdleApi
    /\ IdleIng
    /\ IdlePref
    /\ IdleRelated
    /\ IdleEdgePrep
    /\ IdleConcept
    /\ IdleRun
    /\ IdleGraph
    /\ IdleChat
    /\ IdleEdge
    /\ IdleRace
    /\ IdlePrep
    /\ IdleCard
    /\ IdlePipe
    /\ IdleIngOut
    /\ IdleReviewRace
    /\ IdleReingest
    /\ text \in BoundedSeq(Characters, MaxTextLength)
    /\ chunk_size \in 1..MaxChunkSize
    /\ overlap \in 0..MaxChunkSize
    /\ start = 0
    /\ iteration = 0
    /\ chunks = <<>>
    /\ chunk_pc = "entry"

\* chunk_document(document_id, "recursive", chunk_size, overlap) on the
\* document whose content is text.  When _recursive_chunk raises, the DELETE
\* already executed stays in the session, and the caller's next commit or
\* rollback decides about it.
ServiceChunkDocument(o, caller_commits) ==
    /\ chunk_calls < MaxChunkRuns
    /\ chunk_calls' = chunk_calls + 1
    /\ LET remaining == ExistingChunksDeleted(chunk_rows)
           chunk_data == RecursiveChunk(text, chunk_size, overlap)
           added == ChunkRecords(chunk_data.chunks, chunk_calls')
       IN  IF text = <<>>
           THEN /\ reingest_pc' = "raised_no_content"
                /\ UNCHANGED chunk_rows
           ELSE IF chunk_data.raised
           THEN /\ reingest_pc' = "raised_chunking"
                /\ chunk_rows' = IF caller_commits THEN remaining
                                 ELSE chunk_rows
           ELSE IF ChunkIndexTaken(remaining, added)
           THEN /\ reingest_pc' = "raised_integrity"
                /\ UNCHANGED chunk_rows
           ELSE IF ~Committed(o)
           THEN /\ reingest_pc' = "raised_commit"
                /\ UNCHANGED chunk_rows
           ELSE /\ chunk_rows' = remaining \cup added
                /\ reingest_pc' = IF Raised(o) THEN "raised_refresh"
                                  ELSE "chunked"
    /\ UNCHANGED <<embedding_rows, qdrant_points, embed_calls, exceptReingest>>

\* embed_chunks(document_id): the embeddings are committed first, then the
\* points are upserted; uq_embeddings_entity_type_entity_id_model rejects a
\* second embedding of a chunk.  As in the ingestion pipeline, where the
\* embed node follows the chunk node, every call follows a chunk_document
\* call of its own.
ServiceEmbedChunks(vectors_ok, o, qdrant_ok) ==
    /\ embed_calls < chunk_calls
    /\ embed_calls' = embed_calls + 1
    /\ LET embeddings == EmbeddingRecords(chunk_rows)
           points_to_upsert == ChunkPoints(chunk_rows)
       IN  IF chunk_rows = {}
           THEN /\ reingest_pc' = "raised_no_chunks"
                /\ UNCHANGED <<embedding_rows, qdrant_points>>
           ELSE IF ~vectors_ok
           THEN /\ reingest_pc' = "raised_embedding"
                /\ UNCHANGED <<embedding_rows, qdrant_points>>
           ELSE IF embeddings \cap embedding_rows # {} \/ ~Committed(o)
           THEN /\ reingest_pc' = "raised_commit"
                /\ UNCHANGED <<embedding_rows, qdrant_points>>
           ELSE /\ embedding_rows' = embedding_rows \cup embeddings
                /\ IF Raised(o)
                   THEN /\ reingest_pc' = "raised_refresh"
                        /\ UNCHANGED qdrant_points
                   ELSE IF qdrant_ok
                   THEN /\ reingest_pc' = "embedded"
                        /\ qdrant_points' =
                              UpsertPoints(qdrant_points, points_to_upsert)
                   ELSE /\ reingest_pc' = "raised_qdrant"
                        /\ UNCHANGED qdrant_points
    /\ UNCHANGED <<chunk_rows, chunk_calls, exceptReingest>>

NextReingest ==
    \/ \E o \in DbOutcomes, caller_commits \in BOOLEAN :
          ServiceChunkDocument(o, caller_commits)
    \/ \E vectors_ok \in BOOLEAN, o \in DbOutcomes, qdrant_ok \in BOOLEAN :
          ServiceEmbedChunks(vectors_ok, o, qdrant_ok)

SpecReingest == InitReingest /\ [][NextReingest]_vars

(***************************************************************************)
(* Properties of re-ingestion.                                             *)
(***************************************************************************)
\* the chunk records without their ids
ChunkValues(rows) ==
    {[chunk_index |-> c.chunk_index, start_char |-> c.start_char,
      end_char |-> c.end_char, content |-> c.content] : c \in rows}

\* C33: a chunk_document call on a document that already has chunks never
\* fails on the unique chunk index, and when it changes the stored chunks
\* the new records have the indices, offsets and text of the old ones and
\* none of the old records remains.
RerunLeavesSameChunks ==
    [][/\ reingest_pc' # "raised_integrity"
       /\ (chunk_rows # {} /\ chunk_rows' # chunk_rows) =>
             /\ ChunkValues(chunk_rows') = ChunkValues(chunk_rows)
             /\ chunk_rows' \cap chunk_rows = {}
             /\ \A c \in chunk_rows' : c.id[1] = chunk_calls']_vars

\* the second chunk_document call replaced the chunks of the first, which
\* had been embedded, by several chunks of its own
SecondRunReplacedChunks ==
    /\ reingest_pc = "chunked"
    /\ chunk_calls = 2
    /\ Cardinality(chunk_rows) >= 2
    /\ \A c \in chunk_rows : c.id[1] = 2
    /\ \E e \in embedding_rows : e.entity_id[1] = 1

\* C34: after a re-ingestion (embed_chunks returned) every embedding row and
\* every vector point of the document refers to a chunk the document has.
EmbeddingsReferToCurrentChunks ==
    reingest_pc = "embedded" =>
        LET current == {c.id : c \in chunk_rows}
        IN  /\ \A e \in embedding_rows : e.entity_id \in current
            /\ \A p \in qdrant_points : p.id \in current

(***************************************************************************)
(* Properties of the card types of a flashcard run.                        *)
(***************************************************************************)
\* the places in the LLM response of the cards generated with a card_type
\* other than the one of the requested mode
MismatchedNrs ==
    {nr \in 1..Len(card_state.llm_response) :
        card_state.llm_response[nr].card_type #
            ExpectedType(card_state.mode)}

MaxConceptsPerCall == 2

ConceptNames == {"photosynthesis", "chlorophyll"}
ConceptData == [name : ConceptNames, description : {"d1", "d2"}]

\* select(Concept).where(workspace_id == workspace_id, name.in_(names)),
\* then {c.name: c for c in ...}: the row loaded for a name, if any
ExistingConcepts(table, workspace_id, name) ==
    {row \in table : row.workspace_id = workspace_id /\ row.name = name}

\* the loop of upsert_concepts: the rows of the table with the updates made
\* on the loaded objects, and the new objects added to the session.  The
\* dictionary of existing concepts is built once, before the loop.
RECURSIVE StagedConcepts(_, _, _)
StagedConcepts(table, workspace_id, candidates) ==
    IF candidates = <<>> THEN [rows |-> table, added |-> <<>>]
    ELSE LET before == StagedConcepts(table, workspace_id,
                                      SubSeq(candidates, 1,
                                             Len(candidates) - 1))
             concept_data == candidates[Len(candidates)]
             existing == ExistingConcepts(table, workspace_id,
                                          concept_data.name)
         IN  IF existing # {}
             THEN LET id == (CHOOSE row \in existing : TRUE).id
                  IN  [rows |-> {IF row.id = id
                                 THEN [row EXCEPT !.description =
                                                     concept_data.description]
                                 ELSE row : row \in before.rows},
                       added |-> before.added]
             ELSE [rows |-> before.rows,
                   added |-> Append(before.added,
                                    [id |-> Cardinality(table)
                                              + Len(before.added) + 1,
                                     workspace_id |-> workspace_id,
                                     name |-> concept_data.name,
                                     description |->
                                         concept_data.description])]

\* uq_concepts_workspace_name: what the INSERTs of the flush run into
ConceptNameTaken(table, added) ==
    \/ \E i \in 1..Len(added) : \E row \in table :
          /\ row.workspace_id = added[i].workspace_id
          /\ row.name = added[i].name
    \/ \E i, j \in 1..Len(added) :
          /\ i # j
          /\ added[i].workspace_id = added[j].workspace_id
          /\ added[i].name = added[j].name

InitConcept ==
    /\ IdleSrs
    /\ IdleFn
    /\ IdleApi
    /\ IdleIng
    /\ IdlePref
    /\ IdleRelated
    /\ IdleEdgePrep
    /\ IdleRun
    /\ IdleGraph
    /\ IdleChat
    /\ IdleChunk
    /\ IdleEdge
    /\ IdleRace
    /\ IdlePrep
    /\ IdleCard
    /\ IdlePipe
    /\ IdleIngOut
    /\ IdleReviewRace
    /\ IdleReingest
    /\ concept_rows = {}
    /\ concept_call = NoState
    /\ concept_count = 0

\* one call of upsert_concepts, up to its return or its ValueError
ServiceUpsertConcepts(workspace_id, candidates, commit_ok) ==
    /\ concept_count < MaxUpserts
    /\ concept_count' = concept_count + 1
    /\ LET staged == StagedConcepts(concept_rows, workspace_id, candidates)
           outcome ==
               IF candidates = <<>> THEN "returned"
               ELSE IF ConceptNameTaken(concept_rows, staged.added)
               THEN "raised_integrity"
               ELSE IF commit_ok THEN "returned" ELSE "raised"
       IN  /\ concept_rows' = IF candidates # <<>> /\ outcome = "returned"
                              THEN staged.rows \cup SeqRange(staged.added)
                              ELSE concept_rows
           /\ concept_call' = [workspace_id |-> workspace_id,
                               concepts |-> candidates,
                               outcome |-> outcome]
    /\ UNCHANGED exceptConcept

NextConcept ==
    \E workspace_id \in Workspaces,
       candidates \in BoundedSeq(ConceptData, MaxConceptsPerCall),
       commit_ok \in BOOLEAN :
        ServiceUpsertConcepts(workspace_id, candidates, commit_ok)

SpecConcept == InitConcept /\ [][NextConcept]_vars

(***************************************************************************)
(* Properties of the concept upsert.                                       *)
(***************************************************************************)
\* C36: whatever the list of candidates (names may repeat) and however many
\* calls were made, the table holds at most one row per (workspace, name),
\* and after a call the database did not refuse to commit for a reason of
\* its own, exactly one row for every name of the call's list.
OneConceptPerName ==
    /\ \A r1, r2 \in concept_rows :
          (r1.workspace_id = r2.workspace_id /\ r1.name = r2.name) => r1 = r2
    /\ (concept_call # NoState /\ concept_call.outcome # "raised") =>
          \A i \in 1..Len(concept_call.concepts) :
              Cardinality(ExistingConcepts(concept_rows,
                                           concept_call.workspace_id,
                                           concept_call.concepts[i].name)) = 1

(***************************************************************************)
(* The edge steps of one KG extraction run: _build_name_mapping,           *)
(* _prepare_edges and _upsert_edges, on whole edge lists.  Confidences are *)
(* in hundredths.  The lists are built from blocks of edges of equal       *)
(* confidence and endpoints, each edge with a relation type of its own.    *)
(***************************************************************************)
MAX_EDGES_PER_DOCUMENT == 30

MaxEdgeBlocks == 2
EdgeBlockLengths == {1, 15, 16}
EdgeConfidences == {69, 70, 85}
\* "other" names a concept this run did not upsert
EdgeEndpoints == {<<"cell", "nucleus">>, <<"other", "nucleus">>,
                  <<"cell", "other">>}
EdgeBlocks == [confidence : EdgeConfidences, length : EdgeBlockLengths,
               endpoints : EdgeEndpoints]

\* the edges of a list of blocks; rel_type is the place in the response
RECURSIVE EdgesOf(_, _)
EdgesOf(blocks, first) ==
    IF blocks = <<>> THEN <<>>
    ELSE [i \in 1..Head(blocks).length |->
             [src_name |-> Head(blocks).endpoints[1],
              dst_name |-> Head(blocks).endpoints[2],
              rel_type |-> first + i - 1, weight |-> 5,
              confidence |-> Head(blocks).confidence]]
         \o EdgesOf(Tail(blocks), first + Head(blocks).length)

LlmEdgeLists ==
    {EdgesOf(blocks, 1) : blocks \in BoundedSeq(EdgeBlocks, MaxEdgeBlocks)}

\* what upsert_concepts may have returned: the Concept rows of the run
CreatedConceptLists ==
    {<<>>, <<[name |-> "cell", id |-> 1]>>,
     <<[name |-> "cell", id |-> 1], [name |-> "nucleus", id |-> 2]>>}

\* {c.name: c.id for c in created_concepts}, as a set of (name, id) pairs
NameMapping(created) == {<<c.name, c.id>> : c \in SeqRange(created)}

\* name_to_id.get(name): None is NoInt
GetId(mapping, name) ==
    IF \E pair \in mapping : pair[1] = name
    THEN (CHOOSE pair \in mapping : pair[1] = name)[2]
    ELSE NoInt

\* the loop of _prepare_edges
ResolvedEdges(edges, mapping) ==
    LET kept == SelectSeq(edges, LAMBDA edge :
                    /\ GetId(mapping, edge.src_name) # NoInt
                    /\ GetId(mapping, edge.dst_name) # NoInt
                    /\ edge.confidence >= MIN_CONCEPT_CONFIDENCE)
    IN  [i \in 1..Len(kept) |->
            [src_id |-> GetId(mapping, kept[i].src_name),
             rel_type |-> kept[i].rel_type,
             dst_id |-> GetId(mapping, kept[i].dst_name),
             weight |-> kept[i].weight,
             confidence |-> kept[i].confidence]]

\* edges_data[:MAX_EDGES_PER_DOCUMENT]
UnlimitedEdges(edges) == edges
LimitedEdges(edges) ==
    SubSeq(edges, 1, Min(Len(edges), MAX_EDGES_PER_DOCUMENT))

PreparedEdges(edges, mapping) ==
    LimitedEdges(SortedByConfidence(ResolvedEdges(edges, mapping)))

\* the edge dictionaries as upsert_edges reads them
EdgeDictionaries(edges) ==
    [i \in 1..Len(edges) |->
        [key |-> <<"concept", edges[i].src_id, edges[i].rel_type,
                   "concept", edges[i].dst_id>>,
         weight |-> edges[i].weight, evidence |-> edges[i].confidence]]

InitEdgePrep ==
    /\ IdleSrs
    /\ IdleFn
    /\ IdleApi
    /\ IdleIng
    /\ IdlePref
    /\ IdleRelated
    /\ IdleRun
    /\ IdleGraph
    /\ IdleChat
    /\ IdleChunk
    /\ IdleEdge
    /\ IdleRace
    /\ IdlePrep
    /\ IdleCard
    /\ IdlePipe
    /\ IdleIngOut
    /\ IdleReviewRace
    /\ IdleReingest
    /\ IdleConcept
    /\ llm_edges \in LlmEdgeLists
    /\ created_concepts \in CreatedConceptLists
    /\ name_to_id = {}
    /\ edges_data = <<>>
    /\ run_edges = {}
    /\ kg_pc = "build_name_mapping"

\* _build_name_mapping
BuildNameToId ==
    /\ kg_pc = "build_name_mapping"
    /\ name_to_id' = NameMapping(created_concepts)
    /\ kg_pc' = "prepare_edges"
    /\ UNCHANGED <<llm_edges, created_concepts, edges_data, run_edges,
                   exceptEdgePrep>>

\* _prepare_edges
PrepareEdgeList ==
    /\ kg_pc = "prepare_edges"
    /\ edges_data' = PreparedEdges(llm_edges, name_to_id)
    /\ kg_pc' = "upsert_edges"
    /\ UNCHANGED <<llm_edges, created_concepts, name_to_id, run_edges,
                   exceptEdgePrep>>

\* _upsert_edges: upsert_edges returns, or its failure is caught and routed
\* to handle_error
UpsertPreparedEdges(commit_ok) ==
    /\ kg_pc = "upsert_edges"
    /\ LET edges == EdgeDictionaries(edges_data)
           staged == StagedEdges(run_edges, "w1", edges)
           committed ==
               /\ commit_ok
               /\ ~ViolatesUniqueConstraint(run_edges, staged.added)
       IN  /\ run_edges' = IF edges # <<>> /\ committed
                           THEN staged.rows \cup SeqRange(staged.added)
                           ELSE run_edges
           /\ kg_pc' = IF edges = <<>> \/ committed
                       THEN "find_related_concepts" ELSE "handle_error"
    /\ UNCHANGED <<llm_edges, created_concepts, name_to_id, edges_data,
                   exceptEdgePrep>>

NextEdgePrep ==
    \/ BuildNameToId
    \/ PrepareEdgeList
    \/ \E commit_ok \in BOOLEAN : UpsertPreparedEdges(commit_ok)

SpecEdgePrep == InitEdgePrep /\ [][NextEdgePrep]_vars

(***************************************************************************)
(* Properties of the edge steps.                                           *)
(***************************************************************************)
CreatedIds == {c.id : c \in SeqRange(created_concepts)}

\* C37: every edge the upsert_edges step of a run persisted has both
\* endpoints among the concepts upserted in the run and a confidence of at
\* least MIN_CONCEPT_CONFIDENCE, and the step persisted at most
\* MAX_EDGES_PER_DOCUMENT edges.
PersistedEdgesResolvedAndCapped ==
    /\ \A row \in run_edges :
          /\ row.key[2] \in CreatedIds
          /\ row.key[5] \in CreatedIds
          /\ row.evidence >= MIN_CONCEPT_CONFIDENCE
    /\ Cardinality(run_edges) <= MAX_EDGES_PER_DOCUMENT

\* a response with more resolvable, confident edges than the cap: the cap's
\* worth of them was persisted, the most confident ones first
CapCutsPersistedEdges ==
    /\ kg_pc = "find_related_concepts"
    /\ Cardinality(run_edges) = MAX_EDGES_PER_DOCUMENT
    /\ Len(llm_edges) > MAX_EDGES_PER_DOCUMENT
    /\ \E row \in run_edges : row.evidence = 70
    /\ \E row \in run_edges : row.evidence = 85

(***************************************************************************)
(* One KG extraction run from _find_related_concepts on: the loop over the *)
(* created concepts, one awaited collaborator per step, then _build_output *)
(* and the end of the run.  A rollback of the session expires the Concept  *)
(* objects, and reading an attribute of an expired object raises.          *)
(***************************************************************************)
MAX_RELATIONS_PER_CONCEPT == 5

MaxRelConcepts == 3
MaxFound == 2

InitRelated ==
    /\ IdleSrs
    /\ IdleFn
    /\ IdleApi
    /\ IdleIng
    /\ IdlePref
    /\ IdleRun
    /\ IdleGraph
    /\ IdleChat
    /\ IdleChunk
    /\ IdleEdge
    /\ IdleRace
    /\ IdlePrep
    /\ IdleCard
    /\ IdlePipe
    /\ IdleIngOut
    /\ IdleReviewRace
    /\ IdleReingest
    /\ IdleConcept
    /\ IdleEdgePrep
    /\ rel_concepts \in 0..MaxRelConcepts
    /\ rel_index = 0
    /\ rel_step = "entry"
    /\ rel_similar = 0
    /\ rel_expired = FALSE
    /\ rel_attempted = {}
    /\ rel_state = [related_edges_created |-> 0, error |-> NoError,
                    status |-> "upserting_edges"]
    /\ rel_run = "running"

\* the node returns: {**state, related_edges_created, finding_relations}
RelatedReturn(related_edges) ==
    /\ rel_state' = [rel_state EXCEPT !.related_edges_created = related_edges,
                                      !.status = "finding_relations"]
    /\ rel_step' = "build_output"

\* the loop goes on to the next concept, or ends
ContinueLoop ==
    IF rel_index < rel_concepts
    THEN /\ rel_index' = rel_index + 1
         /\ rel_step' = "embed"
         /\ UNCHANGED rel_state
    ELSE /\ RelatedReturn(rel_state.related_edges_created)
         /\ UNCHANGED rel_index

\* the start of the node: nothing to do without created concepts
FindRelatedStart ==
    /\ rel_step = "entry"
    /\ IF rel_concepts = 0
       THEN /\ RelatedReturn(0)
            /\ UNCHANGED rel_index
       ELSE ContinueLoop
    /\ UNCHANGED <<rel_concepts, rel_similar, rel_expired, rel_attempted,
                   rel_run, exceptRelated>>

\* _generate_embedding and search_concepts for the concept: a failure is
\* caught by `except Exception as concept_error`
EmbedAndSearch(outcome, found) ==
    /\ rel_step = "embed"
    /\ rel_attempted' = rel_attempted \cup {rel_index}
    /\ IF outcome = "ok"
       THEN /\ rel_similar' = Min(found, MAX_RELATIONS_PER_CONCEPT)
            /\ rel_step' = IF rel_similar' > 0 THEN "edges" ELSE "store"
            /\ UNCHANGED <<rel_index, rel_state>>
       ELSE /\ ContinueLoop
            /\ UNCHANGED rel_similar
    /\ UNCHANGED <<rel_concepts, rel_expired, rel_run, exceptRelated>>

\* upsert_edges([edge_data]) for one similar concept.  lookup_failed raises
\* before anything is written; commit_failed raises out of
\* _commit_and_refresh, after its rollback: the handler's message reads
\* concept.id, which raises again, as does the handler of the concept's
\* try, and the outermost except ends the node.
WriteRelatedEdge(outcome) ==
    /\ rel_step = "edges"
    /\ IF outcome = "commit_failed"
       THEN /\ rel_expired' = TRUE
            /\ RelatedReturn(0)
            /\ UNCHANGED rel_similar
       ELSE /\ rel_similar' = rel_similar - 1
            /\ rel_state' =
                  IF outcome = "ok"
                  THEN [rel_state EXCEPT !.related_edges_created = @ + 1]
                  ELSE rel_state
            /\ rel_step' = IF rel_similar' > 0 THEN "edges" ELSE "store"
            /\ UNCHANGED rel_expired
    /\ UNCHANGED <<rel_concepts, rel_index, rel_attempted, rel_run,
                   exceptRelated>>

\* upsert_concept_vectors for the concept, in a try of its own
StoreConceptVector(qdrant_ok) ==
    /\ rel_step = "store"
    /\ ContinueLoop
    /\ UNCHANGED <<rel_concepts, rel_similar, rel_expired, rel_attempted,
                   rel_run, exceptRelated>>

\* _build_output reads the concepts' and the edges' attributes outside any
\* try; the graph then ends, or ainvoke raises what the node raised
BuildRelatedOutput ==
    /\ rel_step = "build_output"
    /\ rel_step' = "END"
    /\ IF rel_expired
       THEN /\ rel_run' = "raised"
            /\ UNCHANGED rel_state
       ELSE /\ rel_run' = "completed"
            /\ rel_state' = [rel_state EXCEPT !.status = "completed"]
    /\ UNCHANGED <<rel_concepts, rel_index, rel_similar, rel_expired,
                   rel_attempted, exceptRelated>>

NextRelated ==
    \/ FindRelatedStart
    \/ \E outcome \in {"ok", "embedding_failed", "search_failed"},
          found \in 0..MaxFound : EmbedAndSearch(outcome, found)
    \/ \E outcome \in {"ok", "lookup_failed", "commit_failed"} :
          WriteRelatedEdge(outcome)
    \/ \E qdrant_ok \in BOOLEAN : StoreConceptVector(qdrant_ok)
    \/ BuildRelatedOutput

SpecRelated == InitRelated /\ [][NextRelated]_vars

(***************************************************************************)
(* Properties of _find_related_concepts.                                   *)
(***************************************************************************)
\* C38: a failure while finding related concepts for one concept never sets
\* the pipeline error, the loop still takes up every created concept, and
\* the run ends completed.
RelatedFailureIsSkipped ==
    /\ rel_state # NoState => rel_state.error = NoError
    /\ rel_step \in {"build_output", "END"} =>
          rel_attempted = 1..rel_concepts
    /\ rel_step = "END" => rel_run = "completed"

(***************************************************************************)
(* The heads of _generate_summary, _generate_flashcards and _generate_kg,  *)
(* run together by asyncio.gather on the session they share: each calls    *)
(* get_preferences and then tests its own flag.  user_id is the primary    *)
(* key of user_preferences; the session does not autoflush.                *)
(***************************************************************************)
\* get_default_preferences
DefaultPreferences == [g \in SubGenerators |-> TRUE]

InitPref ==
    /\ IdleSrs
    /\ IdleFn
    /\ IdleApi
    /\ IdleIng
    /\ IdleRun
    /\ IdleGraph
    /\ IdleChat
    /\ IdleChunk
    /\ IdleEdge
    /\ IdleRace
    /\ IdlePrep
    /\ IdleCard
    /\ IdlePipe
    /\ IdleIngOut
    /\ IdleReviewRace
    /\ IdleReingest
    /\ IdleConcept
    /\ IdleEdgePrep
    /\ IdleRelated
    /\ pref_row \in {NoState} \cup [SubGenerators -> BOOLEAN]
    /\ pref_pending = {}
    /\ pref_pc = [g \in SubGenerators |-> "select"]

\* if preferences.auto_..._after_ingest: log started and run the agent,
\* else log skipped
TestFlag(g, preference) == IF preference[g] THEN "started" ELSE "skipped"

\* get_preferences up to its commit: the select, and db.add of the default
\* row when there is none
SelectPreference(g, db_ok) ==
    /\ pref_pc[g] = "select"
    /\ IF ~db_ok
       THEN /\ pref_pc' = [pref_pc EXCEPT ![g] = "failed_db"]
            /\ UNCHANGED pref_pending
       ELSE IF pref_row # NoState
       THEN /\ pref_pc' = [pref_pc EXCEPT ![g] = TestFlag(g, pref_row)]
            /\ UNCHANGED pref_pending
       ELSE /\ pref_pending' = pref_pending \cup {g}
            /\ pref_pc' = [pref_pc EXCEPT ![g] = "commit"]
    /\ UNCHANGED <<pref_row, exceptPref>>

\* _commit_and_refresh(preference): the commit flushes every pending row of
\* the session; a second row for the user violates the primary key, and the
\* rollback drops all pending rows, leaving their owners with a row the
\* session no longer holds ("detached"), whose refresh raises.  What is
\* raised is caught by the coroutine's except, which logs the step failed.
CommitPreference(g, db_ok) ==
    /\ pref_pc[g] \in {"commit", "detached"}
    /\ LET conflict ==
               \/ Cardinality(pref_pending) >= 2
               \/ pref_pending # {} /\ pref_row # NoState
           flushed == ~conflict /\ db_ok
           row == IF flushed /\ pref_pending # {}
                  THEN DefaultPreferences
                  ELSE pref_row
       IN  /\ pref_pending' = {}
           /\ pref_row' = row
           /\ pref_pc' =
                 [h \in SubGenerators |->
                     IF h = g
                     THEN IF conflict \/ (flushed /\ pref_pc[g] = "detached")
                          THEN "failed"
                          ELSE IF ~flushed
                          THEN "failed_db"
                          ELSE TestFlag(g, row)
                     ELSE IF ~flushed /\ h \in pref_pending
                          THEN "detached"
                          ELSE pref_pc[h]]
    /\ UNCHANGED exceptPref

NextPref ==
    \/ \E g \in SubGenerators, db_ok \in BOOLEAN : SelectPreference(g, db_ok)
    \/ \E g \in SubGenerators, db_ok \in BOOLEAN : CommitPreference(g, db_ok)

SpecPref == InitPref /\ [][NextPref]_vars

(***************************************************************************)
(* Properties of the preference flags.                                     *)
(***************************************************************************)
\* the flag of a sub-generator, a missing record counting as the defaults
PreferenceFlag(g) ==
    IF pref_row = NoState THEN DefaultPreferences[g] ELSE pref_row[g]

\* C39: each optional sub-generator whose preference lookup the database
\* did not fail starts exactly when its own flag is true and is skipped
\* otherwise, a missing record counting as the defaults, whatever the other
\* flags and however the three coroutines interleave.
OwnFlagDecides ==
    \A g \in SubGenerators :
        pref_pc[g] \notin {"select", "commit", "failed_db"} =>
            pref_pc[g] = IF PreferenceFlag(g) THEN "started" ELSE "skipped"

(***************************************************************************)
(* Properties of the steps log.                                            *)
(***************************************************************************)
\* C40: the steps log of a finished run records every stage the nodes
\* reported: when the run has ended, the stored steps hold one entry for
\* each report that _log_step took without a warning.
FinishedRunRecordsEveryStep ==
    (run_pc = "done" /\ run_row # NoState) =>
        Len(run_row.steps) = run_logged
====
